---- MODULE Spec2Model ----
(***************************************************************************)
(* Neotoma-Visualizer: the synonym index (src/src/synonyms.js), the tree   *)
(* builder and synonym grafter (src/src/data.js) and the search engine     *)
(* (src/src/search.js), modelled as state machines over small inputs.      *)
(*                                                                         *)
(* JavaScript values are represented as follows.                           *)
(*   - a taxon id is a natural number; null / undefined is Null (-1);      *)
(*   - a string is a sequence of one-character strings; a null name is     *)
(*     NullName, a sequence holding a token that is no character;          *)
(*   - a Map is a function with a finite domain; a Set that the code       *)
(*     iterates is a sequence without repetition, in insertion order;      *)
(*   - an object is a record; tree nodes live in a heap (a sequence of     *)
(*     records) and are referred to by their index, so that two distinct   *)
(*     node objects carrying the same id are representable.                *)
(***************************************************************************)
EXTENDS Integers, Sequences, FiniteSets, TLC

\* ------------------------------------------------------------------ bounds
MaxId == 3
MaxEntries == 2
MaxSynonyms == 1
MaxLoads == 2
MaxRows == 2
MaxPathLen == 3
MaxGraftRuns == 2
MaxDepth == 3

\* ------------------------------------------------------------- JS values
Null == -1

NullName == <<"null">>

Ids == 0..MaxId

Names == {<<"a">>, <<"A", "b">>}

\* pathsToTree's default parameters
RootId == 6171

RootName == <<"M">>

\* ids that occur in path records and in the synonym file of a render
TreeIds == (1..MaxId) \cup {RootId}

Digit(d) == <<"0", "1", "2", "3", "4", "5", "6", "7", "8", "9">>[d + 1]

\* String(id) of a non-negative integer
RECURSIVE StringOf(_)
StringOf(n) == IF n < 10 THEN <<Digit(n)>> ELSE StringOf(n \div 10) \o <<Digit(n % 10)>>

\* the name the data set gives to a taxon id
TaxonName(id) ==
  IF id = RootId THEN RootName
  ELSE IF id = 1 THEN <<"a">>
  ELSE IF id = 2 THEN <<"A", "b">>
  ELSE IF id = 3 THEN <<"b">>
  ELSE <<"B">> \o StringOf(id)

\* the upper-case letters that occur in names, and their lower-case forms
UpperChars == <<"A", "B", "D", "E", "I", "M", "N", "U">>

LowerChars == <<"a", "b", "d", "e", "i", "m", "n", "u">>

LowerChar(c) ==
  IF \E i \in 1..Len(UpperChars) : UpperChars[i] = c
  THEN LowerChars[CHOOSE i \in 1..Len(UpperChars) : UpperChars[i] = c]
  ELSE c

\* String.prototype.toLowerCase
ToLowerCase(s) == [i \in 1..Len(s) |-> LowerChar(s[i])]

\* String.prototype.trim on strings whose only white space is " "
RECURSIVE TrimStart(_)
TrimStart(s) == IF s # <<>> /\ Head(s) = " " THEN TrimStart(Tail(s)) ELSE s

RECURSIVE TrimEnd(_)
TrimEnd(s) ==
  IF s # <<>> /\ s[Len(s)] = " " THEN TrimEnd(SubSeq(s, 1, Len(s) - 1)) ELSE s

Trim(s) == TrimEnd(TrimStart(s))

\* `x || null` on a value read from a Map of numbers: undefined and 0 are falsy
OrNull(x) == IF x = Null \/ x = 0 THEN Null ELSE x

EmptyMap == [x \in {} |-> Null]

MapHas(m, k) == k \in DOMAIN m

\* Map.prototype.get: undefined (Null) for an absent key
MapGet(m, k) == IF k \in DOMAIN m THEN m[k] ELSE Null

MapSet(m, k, v) == [x \in (DOMAIN m) \cup {k} |-> IF x = k THEN v ELSE m[x]]

\* new Set([x]) and Set.prototype.add on an insertion-ordered Set
SetAdd(set, x) == IF \E i \in 1..Len(set) : set[i] = x THEN set ELSE Append(set, x)

\* the members of an insertion-ordered Set
Members(set) == {set[i] : i \in 1..Len(set)}

\* all sequences over S of length at most n
SeqsUpTo(S, n) == UNION {[1..k -> S] : k \in 0..n}

\* ------------------------------------------------------------ state
VARIABLES
  synonymData,        \* the content of data/all_synonyms.json
  idToValidId,        \* SynonymManager.idToValidId
  validIdToAllIds,    \* SynonymManager.validIdToAllIds
  nameToValidId,      \* SynonymManager.nameToValidId
  validIdToAllNames,  \* SynonymManager.validIdToAllNames
  validIdToInfo,      \* SynonymManager.validIdToInfo
  isLoaded,           \* SynonymManager.isLoaded
  loadPc,             \* position / outcome of each load() call
  fetchCount,         \* number of fetch('data/all_synonyms.json') issued
  buildCount,         \* number of times the forEach that builds the maps ran
  lateWrite,          \* a map was written while isLoaded was already true
  rows,               \* the normalized rows handed to pathsToTree
  allRows,            \* the rows handed to addMissingSynonyms
  nodes,              \* the heap of tree node objects; the root is nodes[1]
  byId,               \* the Map id -> node, in insertion order
  treePc,             \* "none", "built" (pathsToTree returned), "grafted"
  graftRuns,          \* number of addMissingSynonyms runs on the tree
  searchPc,           \* "off", "ready" (setupSearch has run on the tree)
  idToNode,           \* setupSearch: Map id -> node of the hierarchy
  searchInput,        \* searchInput.value.trim() as the handlers last read it
  currentMatches,     \* setupSearch: the ordered match list (nodes)
  currentMatchIndex,  \* setupSearch: position in the match list, -1 for none
  isShowingDetails,   \* setupSearch: the panel shows one result's details
  primaryMatchIds,    \* setupSearch: ids classified primary
  synonymMatchIds,    \* setupSearch: ids classified synonym
  currentHighlightedPath, \* viewSwitch.js: the highlighted node and its path
  currentMatchIds,    \* viewSwitch.js: the match ids handed over by the search
  isFocusView,        \* viewSwitch.js: the focus view is on (Focus button active)
  originalRows,       \* viewSwitch.js: the rows initViewSwitch was given
  renderRequest,      \* the most recent call of the render function: who, rows
  panel,              \* what the #info panel shows
  groupDepth,         \* renderMammalTree: the groupDepth parameter
  nodePaths,          \* enrichTreeWithPaths: node -> its pathIds / pathNames
  hierChildren,       \* d3.hierarchy: node -> its children, in hierarchy order
  leafGroups,         \* computeLeafOrder: the sorted { leaf, groupKey, name }
  leafToIndex,        \* computeLeafOrder: leaf -> its index in leafGroups
  groupPc,            \* "none", "enriched", "reordered", "ordered"
  inferCall,          \* a call of inferFamilyFromPath: names, result, done
  sortKeyed,          \* the hierarchy nodes that carry a _sortKey field
  parseCall           \* a call of parseIdPath / parseNamePath: value, result

synVars == <<synonymData, idToValidId, validIdToAllIds, nameToValidId,
             validIdToAllNames, validIdToInfo, isLoaded, loadPc,
             fetchCount, buildCount, lateWrite>>

treeVars == <<rows, allRows, nodes, byId, treePc, graftRuns>>

searchVars == <<searchPc, idToNode, searchInput, currentMatches, currentMatchIndex,
                isShowingDetails, primaryMatchIds, synonymMatchIds,
                currentHighlightedPath, currentMatchIds,
                isFocusView, originalRows, renderRequest, panel>>

groupVars == <<groupDepth, nodePaths, hierChildren, leafGroups, leafToIndex,
               groupPc, inferCall, sortKeyed>>

codecVars == <<parseCall>>

vars == <<synVars, treeVars, searchVars, codecVars, groupVars, codecVars>>

\* ------------------------------------------------------ synonym entries
SynonymRecords(ids, names) == [invalid_id : ids, invalid_name : names]

Entries(ids, names) ==
  [valid_id : ids, valid_name : names,
   synonyms : SeqsUpTo(SynonymRecords(ids, names), MaxSynonyms)]

\* files whose names may be null (such an entry makes load throw half-way)
SynonymFiles == SeqsUpTo(Entries(Ids, Names \cup {NullName}), MaxEntries)

\* ------------------------------------------------ SynonymManager.load
\* the maps of the manager, as one record
Maps == [idToValidId |-> idToValidId, validIdToAllIds |-> validIdToAllIds,
         nameToValidId |-> nameToValidId, validIdToAllNames |-> validIdToAllNames,
         validIdToInfo |-> validIdToInfo]

\* synonyms.forEach(syn => ...) of one entry, from position i on.
\* st = [m: the maps, allIds, allNames, threw]
RECURSIVE ProcessSynonyms(_, _, _, _)
ProcessSynonyms(st, validId, synonyms, i) ==
  IF i > Len(synonyms) THEN st
  ELSE
    LET syn == synonyms[i]
        m1 == [st.m EXCEPT !.idToValidId = MapSet(@, syn.invalid_id, validId)]
    IN IF syn.invalid_name = NullName
       THEN [st EXCEPT !.m = m1, !.threw = TRUE]   \* invalidName.toLowerCase() throws
       ELSE
         LET m2 == [m1 EXCEPT !.nameToValidId =
                       MapSet(@, ToLowerCase(syn.invalid_name), validId)]
         IN ProcessSynonyms(
              [m |-> m2, allIds |-> SetAdd(st.allIds, syn.invalid_id),
               allNames |-> SetAdd(st.allNames, syn.invalid_name), threw |-> FALSE],
              validId, synonyms, i + 1)

\* the body of synonymData.forEach(entry => ...): [m, threw]
ProcessEntry(m, entry) ==
  LET validId == entry.valid_id
      validName == entry.valid_name
      m1 == [m EXCEPT !.idToValidId = MapSet(@, validId, validId)]
  IN IF validName = NullName
     THEN [m |-> m1, threw |-> TRUE]               \* validName.toLowerCase() throws
     ELSE
       LET m2 == [m1 EXCEPT !.nameToValidId = MapSet(@, ToLowerCase(validName), validId)]
           s == ProcessSynonyms([m |-> m2, allIds |-> <<validId>>,
                                 allNames |-> <<validName>>, threw |-> FALSE],
                                validId, entry.synonyms, 1)
       IN IF s.threw THEN [m |-> s.m, threw |-> TRUE]
          ELSE [m |-> [s.m EXCEPT
                         !.validIdToAllIds = MapSet(@, validId, s.allIds),
                         !.validIdToAllNames = MapSet(@, validId, s.allNames),
                         !.validIdToInfo = MapSet(@, validId,
                             [validId |-> validId, validName |-> validName,
                              synonyms |-> entry.synonyms])],
                threw |-> FALSE]

\* synonymData.forEach over the whole file, stopping at the first exception
RECURSIVE BuildMappings(_, _, _)
BuildMappings(m, data, i) ==
  IF i > Len(data) THEN [m |-> m, threw |-> FALSE]
  ELSE LET r == ProcessEntry(m, data[i])
       IN IF r.threw THEN r ELSE BuildMappings(r.m, data, i + 1)

\* variant of LoadCall: the flag is raised when the fetch is issued
LoadCallEagerFlag(c) ==
  /\ loadPc[c] = "idle"
  /\ IF isLoaded
     THEN /\ loadPc' = [loadPc EXCEPT ![c] = "returned"]
          /\ UNCHANGED <<fetchCount, isLoaded>>
     ELSE /\ loadPc' = [loadPc EXCEPT ![c] = "fetching"]
          /\ fetchCount' = fetchCount + 1
          /\ isLoaded' = TRUE
  /\ UNCHANGED <<synonymData, idToValidId, validIdToAllIds, nameToValidId,
                 validIdToAllNames, validIdToInfo,
                 buildCount, lateWrite, treeVars, searchVars, codecVars, groupVars>>

\* load() is called: `if (this.isLoaded) return;`, else the fetch is issued
LoadCall(c) ==
  /\ loadPc[c] = "idle"
  /\ IF isLoaded
     THEN /\ loadPc' = [loadPc EXCEPT ![c] = "returned"]
          /\ UNCHANGED fetchCount
     ELSE /\ loadPc' = [loadPc EXCEPT ![c] = "fetching"]
          /\ fetchCount' = fetchCount + 1
  /\ UNCHANGED <<synonymData, idToValidId, validIdToAllIds, nameToValidId,
                 validIdToAllNames, validIdToInfo, isLoaded,
                 buildCount, lateWrite, treeVars, searchVars, codecVars, groupVars>>

\* `await fetch(...)` resolves with a response
FetchResolve(c) ==
  /\ loadPc[c] = "fetching"
  /\ loadPc' = [loadPc EXCEPT ![c] = "parsing"]
  /\ UNCHANGED <<synonymData, idToValidId, validIdToAllIds, nameToValidId,
                 validIdToAllNames, validIdToInfo, isLoaded,
                 fetchCount, buildCount, lateWrite, treeVars, searchVars, codecVars, groupVars>>

\* `await fetch(...)` rejects (network error) or `await response.json()`
\* rejects (parse error): the catch logs, load returns normally
LoadReject(c) ==
  /\ loadPc[c] \in {"fetching", "parsing"}
  /\ loadPc' = [loadPc EXCEPT ![c] = "failed"]
  /\ UNCHANGED <<synonymData, idToValidId, validIdToAllIds, nameToValidId,
                 validIdToAllNames, validIdToInfo, isLoaded,
                 fetchCount, buildCount, lateWrite, treeVars, searchVars, codecVars, groupVars>>

\* `await response.json()` resolves: the maps are built in one synchronous
\* run; an exception inside the forEach is caught, isLoaded is then not set
JsonResolve(c) ==
  /\ loadPc[c] = "parsing"
  /\ \E r \in {BuildMappings(Maps, synonymData, 1)} :
        /\ idToValidId' = r.m.idToValidId
        /\ validIdToAllIds' = r.m.validIdToAllIds
        /\ nameToValidId' = r.m.nameToValidId
        /\ validIdToAllNames' = r.m.validIdToAllNames
        /\ validIdToInfo' = r.m.validIdToInfo
        /\ isLoaded' = IF r.threw THEN isLoaded ELSE TRUE
        /\ loadPc' = [loadPc EXCEPT ![c] = IF r.threw THEN "failed" ELSE "loaded"]
  /\ buildCount' = buildCount + 1
  /\ lateWrite' = (lateWrite \/ (isLoaded /\ Len(synonymData) > 0))
  /\ UNCHANGED <<synonymData, fetchCount, treeVars, searchVars, codecVars, groupVars>>

\* --------------------------------------------- SynonymManager queries
getValidId(id) == OrNull(MapGet(idToValidId, id))

getValidIdByName(name) == OrNull(MapGet(nameToValidId, ToLowerCase(name)))

\* the empty Set is <<>>
getAllSynonymIds(id) ==
  LET validId == getValidId(id)
  IN IF validId = Null THEN <<>>
     ELSE IF MapHas(validIdToAllIds, validId) THEN validIdToAllIds[validId] ELSE <<>>

getAllSynonymNames(id) ==
  LET validId == getValidId(id)
  IN IF validId = Null THEN <<>>
     ELSE IF MapHas(validIdToAllNames, validId) THEN validIdToAllNames[validId] ELSE <<>>

isInvalidId(id) ==
  LET validId == getValidId(id)
  IN validId # Null /\ validId # id

\* the value that stands for a null info
NoInfo == [validId |-> Null, validName |-> NullName, synonyms |-> <<>>]

getSynonymInfo(id) ==
  LET validId == getValidId(id)
  IN IF validId = Null THEN NoInfo
     ELSE IF MapHas(validIdToInfo, validId) THEN validIdToInfo[validId] ELSE NoInfo

\* `info && info.validName.toLowerCase() !== name.toLowerCase()`, false for
\* a missing info
isInvalidName(name) ==
  LET validId == getValidIdByName(name)
  IN IF validId = Null THEN FALSE
     ELSE /\ MapHas(validIdToInfo, validId)
          /\ ToLowerCase(validIdToInfo[validId].validName) # ToLowerCase(name)

getValidName(id) == getSynonymInfo(id).validName

isReady == isLoaded

\* ------------------------------------------------ tree nodes (data.js)
\* no node object (null)
NoNode == 0

\* the root object is the first one pathsToTree creates
Root == 1

\* { id, name, children: [] } ; hasChildren tells whether the children field
\* exists; isSynonym / validId are set on grafted nodes only
NewNode(id, name) ==
  [id |-> id, name |-> name, children |-> <<>>, hasChildren |-> TRUE,
   isSynonym |-> FALSE, validId |-> Null]

\* an insertion-ordered Map as a sequence of [k, v]
OHas(m, k) == \E i \in 1..Len(m) : m[i].k = k

OGet(m, k) == IF OHas(m, k) THEN m[CHOOSE i \in 1..Len(m) : m[i].k = k].v ELSE NoNode

OSet(m, k, v) ==
  IF OHas(m, k) THEN [i \in 1..Len(m) |-> IF m[i].k = k THEN [k |-> k, v |-> v] ELSE m[i]]
  ELSE Append(m, [k |-> k, v |-> v])

OKeys(m) == [i \in 1..Len(m) |-> m[i].k]

\* names[i], undefined (NullName) past the end
NameAt(names, i) == IF i <= Len(names) THEN names[i] ELSE NullName

\* a truthy string: neither null/undefined nor ''
TruthyName(nm) == nm # NullName /\ nm # <<>>

\* r.ids_root_to_leaf.forEach((id, i) => ...) filling nameDict, from position i
RECURSIVE NameDictRow(_, _, _)
NameDictRow(dict, r, i) ==
  IF i > Len(r.ids) THEN dict
  ELSE LET id == r.ids[i]
           nm == NameAt(r.names, i)
       IN NameDictRow(IF id # Null /\ TruthyName(nm) /\ ~MapHas(dict, id)
                      THEN MapSet(dict, id, nm) ELSE dict,
                      r, i + 1)

\* the first loop of pathsToTree over the rows
RECURSIVE NameDictRows(_, _, _)
NameDictRows(dict, rs, k) ==
  IF k > Len(rs) THEN dict ELSE NameDictRows(NameDictRow(dict, rs[k], 1), rs, k + 1)

\* String(id) of an element of a parsed id path: a missing id is NaN
IdString(id) == IF id = Null THEN <<"N", "a", "N">> ELSE StringOf(id)

\* names[i] ?? nameDict.get(id) ?? String(id)
NodeName(r, i, id, dict) ==
  IF NameAt(r.names, i) # NullName THEN NameAt(r.names, i)
  ELSE IF MapHas(dict, id) THEN dict[id]
  ELSE IdString(id)

\* variant of WalkIds: a node is created for every position, byId not consulted
RECURSIVE WalkIdsNoReuse(_, _, _, _, _)
WalkIdsNoReuse(t, parent, r, i, dict) ==
  IF i > Len(r.ids) THEN t
  ELSE
    LET id == r.ids[i]
        new == Len(t.nodes) + 1
        created == Append(t.nodes, NewNode(id, NodeName(r, i, id, dict)))
        linked == [created EXCEPT ![parent].children = Append(@, new),
                                  ![parent].hasChildren = TRUE]
    IN WalkIdsNoReuse([nodes |-> linked, byId |-> OSet(t.byId, id, new)],
                      new, r, i + 1, dict)

\* variant of WalkIds: the parent advances only to a node just created
RECURSIVE WalkIdsStuckParent(_, _, _, _, _)
WalkIdsStuckParent(t, parent, r, i, dict) ==
  IF i > Len(r.ids) THEN t
  ELSE
    LET id == r.ids[i]
        child == OGet(t.byId, id)
    IN IF child # NoNode
       THEN WalkIdsStuckParent(t, parent, r, i + 1, dict)
       ELSE
         LET new == Len(t.nodes) + 1
             created == Append(t.nodes, NewNode(id, NodeName(r, i, id, dict)))
             linked == [created EXCEPT ![parent].children = Append(@, new),
                                       ![parent].hasChildren = TRUE]
         IN WalkIdsStuckParent([nodes |-> linked, byId |-> OSet(t.byId, id, new)],
                               new, r, i + 1, dict)

\* variant of WalkIds: a record that reaches an existing node renames it
RECURSIVE WalkIdsRename(_, _, _, _, _)
WalkIdsRename(t, parent, r, i, dict) ==
  IF i > Len(r.ids) THEN t
  ELSE
    LET id == r.ids[i]
        child == OGet(t.byId, id)
    IN IF child # NoNode
       THEN WalkIdsRename([t EXCEPT !.nodes[child].name = NodeName(r, i, id, dict)],
                          child, r, i + 1, dict)
       ELSE
         LET new == Len(t.nodes) + 1
             created == Append(t.nodes, NewNode(id, NodeName(r, i, id, dict)))
             linked == [created EXCEPT ![parent].children = Append(@, new),
                                       ![parent].hasChildren = TRUE]
         IN WalkIdsRename([nodes |-> linked, byId |-> OSet(t.byId, id, new)],
                          new, r, i + 1, dict)

\* the inner loop `for (let i = 1; i < ids.length; i++)` of pathsToTree
\* (position i here is the code's index i - 1); t = [nodes, byId]
RECURSIVE WalkIds(_, _, _, _, _)
WalkIds(t, parent, r, i, dict) ==
  IF i > Len(r.ids) THEN t
  ELSE
    LET id == r.ids[i]
        child == OGet(t.byId, id)
    IN IF child # NoNode
       THEN WalkIds(t, child, r, i + 1, dict)
       ELSE
         LET new == Len(t.nodes) + 1
             created == Append(t.nodes, NewNode(id, NodeName(r, i, id, dict)))
             linked == [created EXCEPT ![parent].children = Append(@, new),
                                       ![parent].hasChildren = TRUE]
         IN WalkIds([nodes |-> linked, byId |-> OSet(t.byId, id, new)],
                    new, r, i + 1, dict)

\* variant of WalkRows: the loop ends one row early
RECURSIVE WalkRowsSkipLast(_, _, _, _, _)
WalkRowsSkipLast(t, rs, k, rootId, dict) ==
  IF k >= Len(rs) THEN t
  ELSE LET r == rs[k]
       IN IF Len(r.ids) = 0 \/ r.ids[1] # rootId
          THEN WalkRowsSkipLast(t, rs, k + 1, rootId, dict)
          ELSE WalkRowsSkipLast(WalkIds(t, Root, r, 2, dict), rs, k + 1, rootId, dict)

\* variant of WalkRows: a record is walked whatever its first id
RECURSIVE WalkRowsAnyRoot(_, _, _, _, _)
WalkRowsAnyRoot(t, rs, k, rootId, dict) ==
  IF k > Len(rs) THEN t
  ELSE WalkRowsAnyRoot(WalkIds(t, Root, rs[k], 2, dict), rs, k + 1, rootId, dict)

\* the second loop of pathsToTree over the rows
RECURSIVE WalkRows(_, _, _, _, _)
WalkRows(t, rs, k, rootId, dict) ==
  IF k > Len(rs) THEN t
  ELSE LET r == rs[k]
       IN IF Len(r.ids) = 0 \/ r.ids[1] # rootId
          THEN WalkRows(t, rs, k + 1, rootId, dict)
          ELSE WalkRows(WalkIds(t, Root, r, 2, dict), rs, k + 1, rootId, dict)

\* variant of Prune: empty children collections are kept
PruneKeepEmpty(h, n) == h

\* (function prune(n) {...})(root): children of n from position j on, then n
RECURSIVE Prune(_, _)
RECURSIVE PruneChildren(_, _, _)
PruneChildren(h, n, j) ==
  IF j > Len(h[n].children) THEN h
  ELSE PruneChildren(Prune(h, h[n].children[j]), n, j + 1)

Prune(h, n) ==
  IF h[n].hasChildren /\ Len(h[n].children) > 0
  THEN PruneChildren(h, n, 1)
  ELSE [h EXCEPT ![n].hasChildren = FALSE, ![n].children = <<>>]

\* pathsToTree(rows, rootId, rootName): { root, byId } as [nodes, byId]
pathsToTree(rs, rootId, rootName) ==
  LET t0 == [nodes |-> <<NewNode(rootId, rootName)>>,
             byId |-> <<[k |-> rootId, v |-> Root]>>]
      dict == NameDictRows(EmptyMap, rs, 1)
      t1 == WalkRows(t0, rs, 1, rootId, dict)
  IN [nodes |-> Prune(t1.nodes, Root), byId |-> t1.byId]

\* ------------------------------------------------ addMissingSynonyms
\* allNodesMap: taxonid -> name, of the rows with a truthy taxonid and taxonname
RECURSIVE AllNodesMap(_, _, _)
AllNodesMap(m, rs, k) ==
  IF k > Len(rs) THEN m
  ELSE AllNodesMap(IF rs[k].taxonid # Null /\ rs[k].taxonid # 0 /\ TruthyName(rs[k].taxonname)
                   THEN MapSet(m, rs[k].taxonid, rs[k].taxonname) ELSE m,
                   rs, k + 1)

\* findParent(node, targetId, par): the parent object, NoNode for null
RECURSIVE findParent(_, _, _, _)
RECURSIVE findParentIn(_, _, _, _)
findParentIn(h, node, targetId, j) ==
  IF j > Len(h[node].children) THEN NoNode
  ELSE LET result == findParent(h, h[node].children[j], targetId, node)
       IN IF result # NoNode THEN result ELSE findParentIn(h, node, targetId, j + 1)

findParent(h, node, targetId, par) ==
  IF h[node].id = targetId THEN par
  ELSE IF h[node].hasChildren THEN findParentIn(h, node, targetId, 1)
  ELSE NoNode

\* the node created for a missing synonym: no children field
SynNode(synId, name, validId) ==
  [id |-> synId, name |-> name, children |-> <<>>, hasChildren |-> FALSE,
   isSynonym |-> TRUE, validId |-> validId]

\* variant of GraftSynonyms: the new node is put before its siblings
RECURSIVE GraftSynonymsPrepend(_, _, _, _, _)
GraftSynonymsPrepend(t, nodeId, info, allNodesMap, j) ==
  IF j > Len(info.synonyms) THEN t
  ELSE
    LET synId == info.synonyms[j].invalid_id
        parent == findParent(t.nodes, Root, nodeId, NoNode)
        new == Len(t.nodes) + 1
    IN IF ~OHas(t.byId, synId) /\ MapHas(allNodesMap, synId) /\ parent # NoNode
       THEN LET created == Append(t.nodes, SynNode(synId, allNodesMap[synId], info.validId))
                linked == [created EXCEPT ![parent].children = <<new>> \o @,
                                          ![parent].hasChildren = TRUE]
            IN GraftSynonymsPrepend([nodes |-> linked, byId |-> OSet(t.byId, synId, new)],
                                    nodeId, info, allNodesMap, j + 1)
       ELSE GraftSynonymsPrepend(t, nodeId, info, allNodesMap, j + 1)

\* synonymInfo.synonyms.forEach(syn => ...) for the tree node nodeId
RECURSIVE GraftSynonyms(_, _, _, _, _)
GraftSynonyms(t, nodeId, info, allNodesMap, j) ==
  IF j > Len(info.synonyms) THEN t
  ELSE
    LET synId == info.synonyms[j].invalid_id
        parent == findParent(t.nodes, Root, nodeId, NoNode)
        new == Len(t.nodes) + 1
    IN IF ~OHas(t.byId, synId) /\ MapHas(allNodesMap, synId) /\ parent # NoNode
       THEN LET created == Append(t.nodes, SynNode(synId, allNodesMap[synId], info.validId))
                linked == [created EXCEPT ![parent].children = Append(@, new),
                                          ![parent].hasChildren = TRUE]
            IN GraftSynonyms([nodes |-> linked, byId |-> OSet(t.byId, synId, new)],
                             nodeId, info, allNodesMap, j + 1)
       ELSE GraftSynonyms(t, nodeId, info, allNodesMap, j + 1)

\* nodesToCheck.forEach(nodeId => ...), from position k on
RECURSIVE GraftNodes(_, _, _, _)
GraftNodes(t, nodesToCheck, allNodesMap, k) ==
  IF k > Len(nodesToCheck) THEN t
  ELSE
    LET nodeId == nodesToCheck[k]
        info == getSynonymInfo(nodeId)
    IN IF info = NoInfo \/ OGet(t.byId, nodeId) = NoNode
       THEN GraftNodes(t, nodesToCheck, allNodesMap, k + 1)
       ELSE GraftNodes(GraftSynonyms(t, nodeId, info, allNodesMap, 1),
                       nodesToCheck, allNodesMap, k + 1)

\* addMissingSynonyms(treeRoot, byId, synonymManager, allRows) on t = [nodes, byId]
addMissingSynonyms(t, rs) ==
  IF ~isReady THEN t
  ELSE GraftNodes(t, OKeys(t.byId), AllNodesMap(EmptyMap, rs, 1), 1)

\* ------------------------------------------------ render steps
\* some load() call has returned to its caller (`await initSynonyms()`)
LoadSettled == \E c \in 1..MaxLoads : loadPc[c] \in {"returned", "loaded", "failed"}

\* renderMammalTree, step 1: pathsToTree(normalizedRows, rootId, rootName)
PathsToTree ==
  /\ treePc = "none"
  /\ LoadSettled
  /\ \E t \in {pathsToTree(rows, RootId, RootName)} :
        /\ nodes' = t.nodes
        /\ byId' = t.byId
  /\ treePc' = "built"
  /\ UNCHANGED <<synVars, rows, allRows, graftRuns, searchVars, codecVars, groupVars>>

\* renderMammalTree, step 1.5: addMissingSynonyms(treeData, byId, ..., rows),
\* before the hierarchy is handed to setupSearch
AddMissingSynonyms ==
  /\ treePc \in {"built", "grafted"}
  /\ searchPc = "off"
  /\ groupPc = "none"
  /\ graftRuns < MaxGraftRuns
  /\ \E t \in {addMissingSynonyms([nodes |-> nodes, byId |-> byId], allRows)} :
        /\ nodes' = t.nodes
        /\ byId' = t.byId
  /\ treePc' = "grafted"
  /\ graftRuns' = graftRuns + 1
  /\ UNCHANGED <<synVars, rows, allRows, searchVars, codecVars, groupVars>>

\* ------------------------------------------------ tree observations
ChildrenOf(h, n) == {h[n].children[j] : j \in 1..Len(h[n].children)}

\* the node objects reachable from the root through children fields
RECURSIVE ReachFrom(_, _)
ReachFrom(h, S) ==
  LET S2 == S \cup UNION {ChildrenOf(h, n) : n \in S}
  IN IF S2 = S THEN S ELSE ReachFrom(h, S2)

TreeNodes(h) == ReachFrom(h, {Root})

\* the ids of a record set
RowIds(rs) == UNION {{rs[k].ids[i] : i \in 1..Len(rs[k].ids)} : k \in 1..Len(rs)}

\* every record's first id is the configured root id
AllRooted(rs) == \A k \in 1..Len(rs) : Len(rs[k].ids) >= 1 /\ rs[k].ids[1] = RootId

\* the node object whose children hold n (NoNode for the root)
ParentOf(h, n) ==
  IF \E p \in 1..Len(h) : n \in ChildrenOf(h, p)
  THEN CHOOSE p \in 1..Len(h) : n \in ChildrenOf(h, p)
  ELSE NoNode

\* the ids from the root down to n
RECURSIVE Chain(_, _)
Chain(h, n) ==
  IF ParentOf(h, n) = NoNode THEN <<h[n].id>>
  ELSE Append(Chain(h, ParentOf(h, n)), h[n].id)

\* the record-derived paths reaching id x: the prefixes of records ending at x
PathsReaching(rs, x) ==
  UNION {{SubSeq(rs[k].ids, 1, i) : i \in {j \in 1..Len(rs[k].ids) : rs[k].ids[j] = x}} :
         k \in 1..Len(rs)}

LongestPathsReaching(rs, x) ==
  {p \in PathsReaching(rs, x) : \A q \in PathsReaching(rs, x) : Len(q) <= Len(p)}

\* the first record, in input order, holding x after its first position, and
\* the first such position in it
FirstRecordWith(rs, x) ==
  CHOOSE k \in 1..Len(rs) :
    /\ \E i \in 2..Len(rs[k].ids) : rs[k].ids[i] = x
    /\ \A k2 \in 1..(k - 1) : \A i \in 2..Len(rs[k2].ids) : rs[k2].ids[i] # x

FirstPositionIn(r, x) ==
  CHOOSE i \in 2..Len(r.ids) : r.ids[i] = x /\ \A j \in 2..(i - 1) : r.ids[j] # x

\* the id that precedes x where the records first reach it
PredecessorOf(rs, x) ==
  LET r == rs[FirstRecordWith(rs, x)]
  IN r.ids[FirstPositionIn(r, x) - 1]

\* ------------------------------------------------ grouping (grouping.js)
\* the literal 'Unknown'
Unknown == <<"U", "n", "k", "n", "o", "w", "n">>

\* the literal 'idae'
FamilySuffix == <<"i", "d", "a", "e">>

\* String.prototype.endsWith
EndsWith(str, suffix) ==
  Len(str) >= Len(suffix) /\ SubSeq(str, Len(str) - Len(suffix) + 1, Len(str)) = suffix

\* names[i] && names[i].toLowerCase().endsWith('idae')
IsFamilyName(nm) == TruthyName(nm) /\ EndsWith(ToLowerCase(nm), FamilySuffix)

\* variant of ScanFamily: the scan runs from the root towards the leaf
ScanFamilyFromRoot(names, i) ==
  IF \E j \in 1..Len(names) : IsFamilyName(names[j])
  THEN CHOOSE j \in 1..Len(names) :
         IsFamilyName(names[j]) /\ \A k \in 1..(j - 1) : ~IsFamilyName(names[k])
  ELSE 0

\* `for (let i = names.length - 1; i >= 0; i--)`: the position of the family
\* name found scanning down from position i, 0 for none
RECURSIVE ScanFamily(_, _)
ScanFamily(names, i) ==
  IF i < 1 THEN 0
  ELSE IF IsFamilyName(names[i]) THEN i
  ELSE ScanFamily(names, i - 1)

\* inferFamilyFromPath(names, groupDepth) on an array of strings
inferFamilyFromPath(names, depth) ==
  LET found == ScanFamily(names, Len(names))
  IN IF found # 0 THEN names[found]
     ELSE IF Len(names) > depth /\ TruthyName(names[depth + 1]) THEN names[depth + 1]
     ELSE IF Len(names) >= 2 THEN names[Len(names) - 1]
     ELSE IF Len(names) >= 1 /\ TruthyName(names[1]) THEN names[1]
     ELSE Unknown

\* no call of inferFamilyFromPath
NoCall == [names |-> <<>>, result |-> NullName, done |-> TRUE]

\* inferFamilyFromPath is called on the pending names with groupDepth
InferFamily ==
  /\ ~inferCall.done
  /\ inferCall' = [inferCall EXCEPT !.result = inferFamilyFromPath(inferCall.names, groupDepth),
                                    !.done = TRUE]
  /\ UNCHANGED <<synVars, treeVars, searchVars, codecVars, groupDepth, nodePaths, hierChildren,
                 leafGroups, leafToIndex, groupPc, sortKeyed>>

\* r.ids_root_to_leaf / names_root_to_leaf .slice(0, i + 1) for the ids of one
\* record not seen before, from position i on
RECURSIVE IdToPathRow(_, _, _)
IdToPathRow(m, r, i) ==
  IF i > Len(r.ids) THEN m
  ELSE IdToPathRow(IF MapHas(m, r.ids[i]) THEN m
                   ELSE MapSet(m, r.ids[i],
                               [ids |-> SubSeq(r.ids, 1, i),
                                names |-> SubSeq(r.names, 1, IF i <= Len(r.names)
                                                              THEN i ELSE Len(r.names))]),
                   r, i + 1)

\* idToPath of enrichTreeWithPaths, over the records from position k on
RECURSIVE IdToPath(_, _, _)
IdToPath(m, rs, k) ==
  IF k > Len(rs) THEN m ELSE IdToPath(IdToPathRow(m, rs[k], 1), rs, k + 1)

\* addPaths(treeData): the nodes that get pathIds / pathNames
AddPaths(h, idToPath) ==
  [n \in {x \in TreeNodes(h) : MapHas(idToPath, h[x].id)} |-> idToPath[h[n].id]]

\* the node objects from the root down to n
RECURSIVE NodeChain(_, _)
NodeChain(h, n) ==
  IF ParentOf(h, n) = NoNode THEN <<n>> ELSE Append(NodeChain(h, ParentOf(h, n)), n)

\* getGroupKey(node, groupDepth) of a node of the hierarchy
getGroupKey(n, depth) ==
  LET pathNames == IF MapHas(nodePaths, n) THEN nodePaths[n].names ELSE <<>>
      family == inferFamilyFromPath(pathNames, depth)
      ancestors == NodeChain(nodes, n)
  IN IF Len(pathNames) > 0 /\ TruthyName(family) THEN family
     ELSE IF Len(ancestors) - 1 - depth >= 0 /\ TruthyName(nodes[ancestors[depth + 1]].name)
          THEN nodes[ancestors[depth + 1]].name
     ELSE IF TruthyName(nodes[n].name) THEN nodes[n].name
     ELSE Unknown

\* node.leaves(): the leaves below n in pre-order; hc maps a node to its
\* children in hierarchy order
RECURSIVE Leaves(_, _)
RECURSIVE LeavesOfChildren(_, _, _)
LeavesOfChildren(hc, cs, j) ==
  IF j > Len(cs) THEN <<>> ELSE Leaves(hc, cs[j]) \o LeavesOfChildren(hc, cs, j + 1)

Leaves(hc, n) == IF Len(hc[n]) = 0 THEN <<n>> ELSE LeavesOfChildren(hc, hc[n], 1)

\* the collation order of the characters that occur in names
Collation ==
  <<"0", "1", "2", "3", "4", "5", "6", "7", "8", "9",
    "a", "b", "d", "e", "i", "k", "m", "n", "o", "u", "w", "z">>

CharRank(c) == CHOOSE i \in 1..Len(Collation) : Collation[i] = LowerChar(c)

\* the first level of String.prototype.localeCompare: letters without case
RECURSIVE PrimaryCompare(_, _, _)
PrimaryCompare(a, b, i) ==
  IF i > Len(a) /\ i > Len(b) THEN 0
  ELSE IF i > Len(a) THEN -1
  ELSE IF i > Len(b) THEN 1
  ELSE IF CharRank(a[i]) < CharRank(b[i]) THEN -1
  ELSE IF CharRank(a[i]) > CharRank(b[i]) THEN 1
  ELSE PrimaryCompare(a, b, i + 1)

\* the case level: at the first difference the lower-case letter comes first
RECURSIVE CaseCompare(_, _, _)
CaseCompare(a, b, i) ==
  IF i > Len(a) THEN 0
  ELSE IF a[i] = b[i] THEN CaseCompare(a, b, i + 1)
  ELSE IF a[i] = LowerChar(a[i]) THEN -1
  ELSE 1

\* a.localeCompare(b): negative, zero or positive
LocaleCompare(a, b) ==
  IF PrimaryCompare(a, b, 1) # 0 THEN PrimaryCompare(a, b, 1) ELSE CaseCompare(a, b, 1)

\* variant of GroupCmp: the group keys are not compared
GroupCmpNameOnly(a, b) == LocaleCompare(a.name, b.name)

\* the comparator of leafGroups.sort
GroupCmp(a, b) ==
  IF LocaleCompare(a.groupKey, b.groupKey) # 0
  THEN LocaleCompare(a.groupKey, b.groupKey)
  ELSE LocaleCompare(a.name, b.name)

\* Array.prototype.sort is stable: x goes before the first element greater
\* than it
InsertGroup(sorted, x) ==
  LET after == {i \in 1..Len(sorted) : GroupCmp(sorted[i], x) > 0}
      pos == IF after = {} THEN Len(sorted) + 1
             ELSE CHOOSE i \in after : \A j \in after : i <= j
  IN SubSeq(sorted, 1, pos - 1) \o <<x>> \o SubSeq(sorted, pos, Len(sorted))

\* leafGroups.sort(...) of the first k elements
RECURSIVE SortGroups(_, _)
SortGroups(items, k) ==
  IF k = 0 THEN <<>> ELSE InsertGroup(SortGroups(items, k - 1), items[k])

\* computeLeafOrder(root, groupDepth): { leafToIndex, leafGroups }
computeLeafOrder(hc, depth) ==
  LET leaves == Leaves(hc, Root)
      items == [i \in 1..Len(leaves) |->
                  [leaf |-> leaves[i], groupKey |-> getGroupKey(leaves[i], depth),
                   name |-> IF TruthyName(nodes[leaves[i]].name)
                            THEN nodes[leaves[i]].name ELSE <<>>]]
      sorted == SortGroups(items, Len(items))
  IN [leafGroups |-> sorted,
      leafToIndex |-> [l \in {leaves[i] : i \in 1..Len(leaves)} |->
                         (CHOOSE i \in 1..Len(sorted) : sorted[i].leaf = l) - 1]]

\* the sum of the leaf indices of the leaves ls, from position i on
RECURSIVE SumIndex(_, _, _)
SumIndex(l2i, ls, i) ==
  IF i > Len(ls) THEN 0 ELSE MapGet(l2i, ls[i]) + SumIndex(l2i, ls, i + 1)

\* child._sortKey as the fraction sum / count: the mean leaf index of an
\* internal node, the own index of a leaf
SortKey(hc, l2i, c) ==
  IF Len(hc[c]) > 0
  THEN [sum |-> SumIndex(l2i, Leaves(hc, c), 1), count |-> Len(Leaves(hc, c))]
  ELSE [sum |-> IF MapHas(l2i, c) THEN l2i[c] ELSE 0, count |-> 1]

\* variant of KeyGreater: the comparison is reversed
KeyGreaterReversed(hc, l2i, a, b) ==
  SortKey(hc, l2i, a).sum * SortKey(hc, l2i, b).count
    < SortKey(hc, l2i, b).sum * SortKey(hc, l2i, a).count

\* (a._sortKey || 0) - (b._sortKey || 0) > 0
KeyGreater(hc, l2i, a, b) ==
  SortKey(hc, l2i, a).sum * SortKey(hc, l2i, b).count
    > SortKey(hc, l2i, b).sum * SortKey(hc, l2i, a).count

InsertChild(hc, l2i, sorted, x) ==
  LET after == {i \in 1..Len(sorted) : KeyGreater(hc, l2i, sorted[i], x)}
      pos == IF after = {} THEN Len(sorted) + 1
             ELSE CHOOSE i \in after : \A j \in after : i <= j
  IN SubSeq(sorted, 1, pos - 1) \o <<x>> \o SubSeq(sorted, pos, Len(sorted))

\* node.children.sort(...) of the first k children
RECURSIVE SortChildren(_, _, _, _)
SortChildren(hc, l2i, cs, k) ==
  IF k = 0 THEN <<>> ELSE InsertChild(hc, l2i, SortChildren(hc, l2i, cs, k - 1), cs[k])

\* sortNodeChildren(node): the children's subtrees first, from child j on,
\* then the children of the node itself
RECURSIVE sortNodeChildren(_, _, _)
RECURSIVE SortSubtrees(_, _, _, _)
SortSubtrees(hc, l2i, cs, j) ==
  IF j > Len(cs) THEN hc
  ELSE SortSubtrees(sortNodeChildren(hc, l2i, cs[j]), l2i, cs, j + 1)

sortNodeChildren(hc, l2i, n) ==
  IF Len(hc[n]) = 0 THEN hc
  ELSE LET hc1 == SortSubtrees(hc, l2i, hc[n], 1)
       IN [hc1 EXCEPT ![n] = SortChildren(hc1, l2i, hc1[n], Len(hc1[n]))]

\* the nodes of the hierarchy: root.each visits them all
RECURSIVE HierReach(_, _)
HierReach(hc, S) ==
  LET S2 == S \cup UNION {Members(hc[n]) : n \in S}
  IN IF S2 = S THEN S ELSE HierReach(hc, S2)

\* `child._sortKey = ...`: sortNodeChildren sets the field on every child of
\* every internal node
SortKeysSet(hc) == UNION {Members(hc[n]) : n \in HierReach(hc, {Root})}

\* root.each(d => delete d._sortKey)
ClearSortKeys(hc, keyed) == keyed \ HierReach(hc, {Root})

\* reorderTreeForGrouping(root, groupDepth): the reordered hierarchy
reorderTreeForGrouping(hc, depth) ==
  sortNodeChildren(hc, computeLeafOrder(hc, depth).leafToIndex, Root)

\* renderMammalTree: enrichTreeWithPaths(treeData, normalizedRows), then
\* d3.hierarchy(treeData)
EnrichTree ==
  /\ treePc = "grafted"
  /\ groupPc = "none"
  /\ searchPc = "off"
  /\ nodePaths' = AddPaths(nodes, IdToPath(EmptyMap, rows, 1))
  /\ hierChildren' = [n \in 1..Len(nodes) |-> nodes[n].children]
  /\ groupPc' = "enriched"
  /\ UNCHANGED <<synVars, treeVars, searchVars, codecVars, groupDepth, leafGroups, leafToIndex,
                 inferCall, sortKeyed>>

\* renderMammalTree: reorderTreeForGrouping(root, groupDepth)
ReorderTree ==
  /\ groupPc = "enriched"
  /\ hierChildren' = reorderTreeForGrouping(hierChildren, groupDepth)
  /\ sortKeyed' = ClearSortKeys(hierChildren, (sortKeyed \cup SortKeysSet(hierChildren)))
  /\ groupPc' = "reordered"
  /\ UNCHANGED <<synVars, treeVars, searchVars, codecVars, groupDepth, nodePaths, leafGroups,
                 leafToIndex, inferCall>>

\* renderMammalTree: computeLeafOrder(root, groupDepth) on the reordered
\* hierarchy
ComputeLeafOrder ==
  /\ groupPc = "reordered"
  /\ \E o \in {computeLeafOrder(hierChildren, groupDepth)} :
        /\ leafGroups' = o.leafGroups
        /\ leafToIndex' = o.leafToIndex
  /\ groupPc' = "ordered"
  /\ UNCHANGED <<synVars, treeVars, searchVars, codecVars, groupDepth, nodePaths, hierChildren,
                 inferCall, sortKeyed>>

\* ------------------------------------------------ search (search.js)
\* d3.hierarchy(treeData).descendants(): the nodes in breadth-first order
RECURSIVE Descendants(_, _)
Descendants(h, queue) ==
  IF queue = <<>> THEN <<>>
  ELSE <<Head(queue)>> \o Descendants(h, Tail(queue) \o h[Head(queue)].children)

\* root.descendants().forEach(n => idToNode.set(n.data.id, n))
RECURSIVE IdToNode(_, _, _, _)
IdToNode(m, h, ds, i) ==
  IF i > Len(ds) THEN m ELSE IdToNode(MapSet(m, h[ds[i]].id, ds[i]), h, ds, i + 1)

\* node.ancestors().reverse().map(n => n.data.id)
PathIds(h, n) == Chain(h, n)

NoPath == [node |-> NoNode, pathIds |-> <<>>]

IsDigit(c) == c \in {"0", "1", "2", "3", "4", "5", "6", "7", "8", "9"}

DigitVal(c) == CHOOSE d \in 0..9 : Digit(d) = c

RECURSIVE DigitsValue(_)
DigitsValue(q) ==
  IF q = <<>> THEN 0 ELSE 10 * DigitsValue(SubSeq(q, 1, Len(q) - 1)) + DigitVal(q[Len(q)])

\* Number(q) of a trimmed string of letters and digits; NaN is Null
NumberOf(q) == IF \A i \in 1..Len(q) : IsDigit(q[i]) THEN DigitsValue(q) ELSE Null

\* String.prototype.includes
Includes(str, sub) ==
  \E k \in 0..(Len(str) - Len(sub)) : \A i \in 1..Len(sub) : str[k + i] = sub[i]

\* (n.data.name || '').toLowerCase().includes(lower)
NameIncludes(name, lower) ==
  Includes(ToLowerCase(IF name = NullName THEN <<>> ELSE name), lower)

\* Array.from(names).some(name => name.toLowerCase().includes(lower))
SomeNameIncludes(names, lower) ==
  \E i \in 1..Len(names) : Includes(ToLowerCase(names[i]), lower)

\* variant of IdClosure: only invalid ids are marked synonym
RECURSIVE IdClosureInvalidOnly(_, _, _, _)
IdClosureInvalidOnly(m, id, allSynonymIds, i) ==
  IF i > Len(allSynonymIds) THEN m
  ELSE
    LET synId == allSynonymIds[i]
    IN IF MapHas(idToNode, synId) /\ synId \notin m.matchedIds
       THEN IdClosureInvalidOnly(
              [m EXCEPT !.matches = Append(@, idToNode[synId]),
                        !.matchedIds = @ \cup {synId},
                        !.synonym = IF synId # id /\ isInvalidId(synId)
                                    THEN @ \cup {synId} ELSE @],
              id, allSynonymIds, i + 1)
       ELSE IdClosureInvalidOnly(m, id, allSynonymIds, i + 1)

\* allSynonymIds.forEach(synId => ...) of the exact-id branch;
\* m = [matches, matchedIds, primary, synonym]
RECURSIVE IdClosure(_, _, _, _)
IdClosure(m, id, allSynonymIds, i) ==
  IF i > Len(allSynonymIds) THEN m
  ELSE
    LET synId == allSynonymIds[i]
    IN IF MapHas(idToNode, synId) /\ synId \notin m.matchedIds
       THEN IdClosure([m EXCEPT !.matches = Append(@, idToNode[synId]),
                                !.matchedIds = @ \cup {synId},
                                !.synonym = IF synId # id THEN @ \cup {synId} ELSE @],
                      id, allSynonymIds, i + 1)
       ELSE IdClosure(m, id, allSynonymIds, i + 1)

\* the exact-id branch of runSearch
IdSearch(id) ==
  LET m0 == [matches |-> <<>>, matchedIds |-> {}, primary |-> {id}, synonym |-> {}]
  IN IF isReady
     THEN IdClosure(m0, id, getAllSynonymIds(id), 1)
     ELSE [m0 EXCEPT !.matches = <<idToNode[id]>>, !.matchedIds = {id}]

\* variant of DirectMatches: the name is compared without toLowerCase()
RECURSIVE DirectMatchesCaseSensitive(_, _, _, _)
DirectMatchesCaseSensitive(m, ds, lower, i) ==
  IF i > Len(ds) THEN m
  ELSE
    LET n == ds[i]
    IN IF Includes(IF nodes[n].name = NullName THEN <<>> ELSE nodes[n].name, lower)
          /\ nodes[n].id \notin m.matchedIds
       THEN DirectMatchesCaseSensitive([m EXCEPT !.matches = Append(@, n),
                                                 !.matchedIds = @ \cup {nodes[n].id},
                                                 !.primary = @ \cup {nodes[n].id}],
                                       ds, lower, i + 1)
       ELSE DirectMatchesCaseSensitive(m, ds, lower, i + 1)

\* directMatches.forEach(n => ...): the nodes whose own name holds the query
RECURSIVE DirectMatches(_, _, _, _)
DirectMatches(m, ds, lower, i) ==
  IF i > Len(ds) THEN m
  ELSE
    LET n == ds[i]
    IN IF NameIncludes(nodes[n].name, lower) /\ nodes[n].id \notin m.matchedIds
       THEN DirectMatches([m EXCEPT !.matches = Append(@, n),
                                    !.matchedIds = @ \cup {nodes[n].id},
                                    !.primary = @ \cup {nodes[n].id}],
                          ds, lower, i + 1)
       ELSE DirectMatches(m, ds, lower, i + 1)

\* synonymNameMatches: the unmatched nodes one of whose synonym names holds
\* the query, in traversal order
RECURSIVE SynonymNameMatches(_, _, _, _)
SynonymNameMatches(matchedIds, ds, lower, i) ==
  IF i > Len(ds) THEN <<>>
  ELSE
    LET id == nodes[ds[i]].id
        rest == SynonymNameMatches(matchedIds, ds, lower, i + 1)
    IN IF id \notin matchedIds /\ SomeNameIncludes(getAllSynonymNames(id), lower)
       THEN IF \E k \in 1..Len(rest) : rest[k] = id THEN rest ELSE <<id>> \o rest
       ELSE rest

\* variant of PrimaryClosure: closure members are marked primary
RECURSIVE PrimaryClosureAllPrimary(_, _, _)
PrimaryClosureAllPrimary(m, allSynonymIds, i) ==
  IF i > Len(allSynonymIds) THEN m
  ELSE
    LET synId == allSynonymIds[i]
    IN IF MapHas(idToNode, synId) /\ synId \notin m.matchedIds
       THEN PrimaryClosureAllPrimary([m EXCEPT !.matches = Append(@, idToNode[synId]),
                                               !.matchedIds = @ \cup {synId},
                                               !.primary = @ \cup {synId}],
                                     allSynonymIds, i + 1)
       ELSE PrimaryClosureAllPrimary(m, allSynonymIds, i + 1)

\* allSynonymIds.forEach of one primary id: closure members become synonym
\* unless already primary
RECURSIVE PrimaryClosure(_, _, _)
PrimaryClosure(m, allSynonymIds, i) ==
  IF i > Len(allSynonymIds) THEN m
  ELSE
    LET synId == allSynonymIds[i]
    IN IF MapHas(idToNode, synId) /\ synId \notin m.matchedIds
       THEN PrimaryClosure([m EXCEPT !.matches = Append(@, idToNode[synId]),
                                     !.matchedIds = @ \cup {synId},
                                     !.synonym = IF synId \notin m.primary
                                                 THEN @ \cup {synId} ELSE @],
                           allSynonymIds, i + 1)
       ELSE PrimaryClosure(m, allSynonymIds, i + 1)

\* allPrimaryIds.forEach(primaryId => ...), in the order the ids were added
RECURSIVE PrimaryClosures(_, _, _)
PrimaryClosures(m, allPrimaryIds, k) ==
  IF k > Len(allPrimaryIds) THEN m
  ELSE PrimaryClosures(PrimaryClosure(m, getAllSynonymIds(allPrimaryIds[k]), 1),
                       allPrimaryIds, k + 1)

\* allSynonymIds.forEach of one node matched through a synonym name
RECURSIVE NameClosure(_, _, _, _)
NameClosure(m, allSynonymIds, lower, i) ==
  IF i > Len(allSynonymIds) THEN m
  ELSE
    LET synId == allSynonymIds[i]
        matchesDirectly == SomeNameIncludes(getAllSynonymNames(synId), lower)
    IN IF MapHas(idToNode, synId) /\ synId \notin m.matchedIds
       THEN NameClosure([m EXCEPT !.matches = Append(@, idToNode[synId]),
                                  !.matchedIds = @ \cup {synId},
                                  !.primary = IF matchesDirectly THEN @ \cup {synId} ELSE @,
                                  !.synonym = IF matchesDirectly THEN @ ELSE @ \cup {synId}],
                        allSynonymIds, lower, i + 1)
       ELSE NameClosure(m, allSynonymIds, lower, i + 1)

\* synonymNameMatches.forEach(nodeId => ...)
RECURSIVE NameClosures(_, _, _, _)
NameClosures(m, nameMatches, lower, k) ==
  IF k > Len(nameMatches) THEN m
  ELSE NameClosures(NameClosure(m, getAllSynonymIds(nameMatches[k]), lower, 1),
                    nameMatches, lower, k + 1)

\* the name branch of runSearch
NameSearch(q) ==
  LET lower == ToLowerCase(q)
      ds == Descendants(nodes, <<Root>>)
      m1 == DirectMatches([matches |-> <<>>, matchedIds |-> {}, primary |-> {},
                           synonym |-> {}], ds, lower, 1)
      allPrimaryIds == [i \in 1..Len(m1.matches) |-> nodes[m1.matches[i]].id]
  IN IF isReady
     THEN NameClosures(PrimaryClosures(m1, allPrimaryIds, 1),
                       SynonymNameMatches(m1.matchedIds, ds, lower, 1), lower, 1)
     ELSE m1

\* the classification runSearch computes for a non-empty query q
SearchMatches(q) ==
  IF NumberOf(q) # Null /\ MapHas(idToNode, NumberOf(q))
  THEN IdSearch(NumberOf(q))
  ELSE NameSearch(q)

\* ------------------------------------------------ view switch (viewSwitch.js)
\* rowIds.includes(Number(id)) on a row of originalRows
RowIncludes(r, id) == \E i \in 1..Len(r.ids) : r.ids[i] = id

\* filteredRows of switchToFocusView: the rows that hold a matched id or,
\* without match ids, the highlighted node's id
FilteredRows(path, ids) ==
  IF ids # {}
  THEN SelectSeq(originalRows, LAMBDA r : \E id \in ids : RowIncludes(r, id))
  ELSE IF path # NoPath
       THEN SelectSeq(originalRows,
                      LAMBDA r : RowIncludes(r, path.pathIds[Len(path.pathIds)]))
       ELSE <<>>

\* await renderFunction(rs, ...): the page's tree is rebuilt from the rows
\* of the request (pathsToTree, addMissingSynonyms and setupSearch run again)
Rerender(rs, by) ==
  /\ renderRequest' = [by |-> by, rows |-> rs]
  /\ rows' = rs
  /\ nodes' = <<>>
  /\ byId' = <<>>
  /\ treePc' = "none"
  /\ graftRuns' = 0
  /\ searchPc' = "off"

\* no call of the render function
NoRerender == UNCHANGED <<renderRequest, rows, nodes, byId, treePc, graftRuns, searchPc>>

\* switchToFocusView() with the given highlighted path and match ids
SwitchToFocusView(path, ids) ==
  IF ids = {} /\ path = NoPath
  THEN /\ UNCHANGED isFocusView                  \* the warning is shown
       /\ NoRerender
  ELSE /\ isFocusView' = TRUE
       /\ IF FilteredRows(path, ids) = <<>>
          THEN NoRerender                        \* 'No rows found for Focus View'
          ELSE Rerender(FilteredRows(path, ids), "switchToFocusView")

\* switchToWholeView()
SwitchToWholeView ==
  /\ isFocusView' = FALSE
  /\ Rerender(originalRows, "switchToWholeView")

\* setHighlightedPath(n) while the match ids are ids
SetHighlightedPath(n, ids) ==
  /\ currentHighlightedPath' = [node |-> n, pathIds |-> PathIds(nodes, n)]
  /\ IF isFocusView
     THEN SwitchToFocusView([node |-> n, pathIds |-> PathIds(nodes, n)], ids)
     ELSE /\ UNCHANGED isFocusView
          /\ NoRerender

\* variant of ClearHighlightedPath: the match ids are kept
ClearHighlightedPathKeepIds ==
  /\ currentHighlightedPath' = NoPath
  /\ UNCHANGED currentMatchIds
  /\ IF isFocusView
     THEN SwitchToWholeView
     ELSE /\ UNCHANGED isFocusView
          /\ NoRerender

\* clearHighlightedPath()
ClearHighlightedPath ==
  /\ currentHighlightedPath' = NoPath
  /\ currentMatchIds' = {}
  /\ IF isFocusView
     THEN SwitchToWholeView
     ELSE /\ UNCHANGED isFocusView
          /\ NoRerender

\* what no handler of the page writes
PageFrame == UNCHANGED <<synVars, allRows, groupVars, codecVars, idToNode, originalRows>>

\* the Focus button
PressFocus ==
  /\ searchPc = "ready"
  /\ ~isFocusView
  /\ SwitchToFocusView(currentHighlightedPath, currentMatchIds)
  /\ UNCHANGED <<searchInput, currentMatches, currentMatchIndex, isShowingDetails,
                 primaryMatchIds, synonymMatchIds, currentHighlightedPath,
                 currentMatchIds, panel>>
  /\ PageFrame

\* the Whole button
PressWhole ==
  /\ searchPc = "ready"
  /\ isFocusView
  /\ SwitchToWholeView
  /\ UNCHANGED <<searchInput, currentMatches, currentMatchIndex, isShowingDetails,
                 primaryMatchIds, synonymMatchIds, currentHighlightedPath,
                 currentMatchIds, panel>>
  /\ PageFrame

\* a click on a node of the drawn tree (after the click timer)
ClickNode(n) ==
  /\ searchPc = "ready"
  /\ n \in TreeNodes(nodes)
  /\ SetHighlightedPath(n, currentMatchIds)
  /\ panel' = "path"                             \* info.show(d)
  /\ UNCHANGED <<searchInput, currentMatches, currentMatchIndex, isShowingDetails,
                 primaryMatchIds, synonymMatchIds, currentMatchIds>>
  /\ PageFrame

\* ------------------------------------------------ search handlers (search.js)
\* setupSearch(...) at the end of a render: a fresh search state on the tree;
\* setupFocusInfo has hidden the panel
SetupSearch ==
  /\ searchPc = "off"
  /\ treePc = "grafted"
  /\ searchPc' = "ready"
  /\ idToNode' = IdToNode(EmptyMap, nodes, Descendants(nodes, <<Root>>), 1)
  /\ searchInput' = <<>>
  /\ currentMatches' = <<>>
  /\ currentMatchIndex' = -1
  /\ isShowingDetails' = FALSE
  /\ primaryMatchIds' = {}
  /\ synonymMatchIds' = {}
  /\ panel' = "hidden"
  /\ UNCHANGED <<synVars, treeVars, groupVars, codecVars, currentHighlightedPath, currentMatchIds,
                 isFocusView, originalRows, renderRequest>>

\* the state both the empty query and the cleared input leave
ClearSearch ==
  /\ currentMatches' = <<>>
  /\ currentMatchIndex' = -1
  /\ primaryMatchIds' = {}
  /\ synonymMatchIds' = {}
  /\ ClearHighlightedPath
  /\ panel' = "hidden"                           \* info.clear()
  /\ UNCHANGED isShowingDetails

\* the user enters the value v and runSearch runs (Enter or the search
\* button); searchInput is the trimmed value
RunSearch(v) ==
  /\ searchPc = "ready"
  /\ searchInput' = Trim(v)
  /\ IF Trim(v) = <<>>
     THEN ClearSearch
     ELSE \E m \in {SearchMatches(Trim(v))} :
             /\ currentMatches' = m.matches
             /\ currentMatchIndex' = -1
             /\ primaryMatchIds' = m.primary
             /\ synonymMatchIds' = m.synonym
             /\ IF Len(m.matches) = 0
                THEN /\ ClearHighlightedPath     \* after setMatchIds(allMatchIds)
                     /\ panel' = "message"
                     /\ UNCHANGED isShowingDetails
                ELSE /\ currentMatchIds' = m.primary \cup m.synonym   \* setMatchIds
                     /\ SetHighlightedPath(m.matches[1], m.primary \cup m.synonym)
                     /\ isShowingDetails' = (Len(m.matches) = 1)
                     /\ panel' = IF Len(m.matches) = 1 THEN "details" ELSE "list"
  /\ PageFrame

\* the input handler: the value of the search input has become v
InputChange(v) ==
  /\ searchPc = "ready"
  /\ IF Trim(v) = <<>>
     THEN /\ searchInput' = <<>>
          /\ ClearSearch
     ELSE /\ NoRerender
          /\ UNCHANGED <<searchInput, currentMatches, currentMatchIndex, isShowingDetails,
                         primaryMatchIds, synonymMatchIds, currentHighlightedPath,
                         currentMatchIds, isFocusView, panel>>
  /\ PageFrame

\* focusNode(currentMatches[index]) of a step or a click
FocusMatch(index) == SetHighlightedPath(currentMatches[index + 1], currentMatchIds)

\* variant of ArrowDown: the index wraps to the first match after the last
ArrowDownWraps ==
  /\ searchPc = "ready"
  /\ IF Len(currentMatches) > 0
     THEN \E next \in {(currentMatchIndex + 1) % Len(currentMatches)} :
             /\ currentMatchIndex' = next
             /\ FocusMatch(next)
             /\ panel' = "path"
     ELSE /\ NoRerender
          /\ UNCHANGED <<currentMatchIndex, currentHighlightedPath, isFocusView, panel>>
  /\ UNCHANGED <<searchInput, currentMatches, isShowingDetails, primaryMatchIds,
                 synonymMatchIds, currentMatchIds>>
  /\ PageFrame

\* the keydown handler, ArrowDown
ArrowDown ==
  /\ searchPc = "ready"
  /\ IF Len(currentMatches) > 0
     THEN \E next \in {IF currentMatchIndex < 0 THEN 0
                       ELSE IF currentMatchIndex + 1 < Len(currentMatches) - 1
                            THEN currentMatchIndex + 1
                            ELSE Len(currentMatches) - 1} :
             /\ currentMatchIndex' = next
             /\ FocusMatch(next)
             /\ panel' = "path"
     ELSE /\ NoRerender
          /\ UNCHANGED <<currentMatchIndex, currentHighlightedPath, isFocusView, panel>>
  /\ UNCHANGED <<searchInput, currentMatches, isShowingDetails, primaryMatchIds,
                 synonymMatchIds, currentMatchIds>>
  /\ PageFrame

\* the keydown handler, ArrowUp
ArrowUp ==
  /\ searchPc = "ready"
  /\ IF Len(currentMatches) > 0
     THEN \E next \in {IF currentMatchIndex < 0 THEN Len(currentMatches) - 1
                       ELSE IF currentMatchIndex - 1 > 0
                            THEN currentMatchIndex - 1
                            ELSE 0} :
             /\ currentMatchIndex' = next
             /\ FocusMatch(next)
             /\ panel' = "path"
     ELSE /\ NoRerender
          /\ UNCHANGED <<currentMatchIndex, currentHighlightedPath, isFocusView, panel>>
  /\ UNCHANGED <<searchInput, currentMatches, isShowingDetails, primaryMatchIds,
                 synonymMatchIds, currentMatchIds>>
  /\ PageFrame

\* a click on item idx of the result list
ClickResult(idx) ==
  /\ searchPc = "ready"
  /\ panel = "list"
  /\ idx \in 0..(Len(currentMatches) - 1)
  /\ currentMatchIndex' = idx
  /\ isShowingDetails' = TRUE
  /\ FocusMatch(idx)
  /\ panel' = "details"                          \* showNodeDetails
  /\ UNCHANGED <<searchInput, currentMatches, primaryMatchIds, synonymMatchIds,
                 currentMatchIds>>
  /\ PageFrame

\* the Back to Results button of the details of one of several matches
BackToResults ==
  /\ searchPc = "ready"
  /\ panel = "details"
  /\ Len(currentMatches) > 1
  /\ isShowingDetails' = FALSE                   \* showSearchResultsList
  /\ panel' = "list"
  /\ NoRerender
  /\ UNCHANGED <<searchInput, currentMatches, currentMatchIndex, primaryMatchIds,
                 synonymMatchIds, currentHighlightedPath, currentMatchIds, isFocusView>>
  /\ PageFrame

\* ------------------------------------------------------------ path parsing (data.js)
\* A JS value handed to parseIdPath / parseNamePath, or held by a parsed JSON
\* text: kind is "number" (n), "string" (s), "array" (e), "object" or "other"
\* (null, undefined, a boolean).
NumberValue(n) == [kind |-> "number", n |-> n, s |-> <<>>, e |-> <<>>]

StringValue(s) == [kind |-> "string", n |-> 0, s |-> s, e |-> <<>>]

ArrayValue(e) == [kind |-> "array", n |-> 0, s |-> <<>>, e |-> e]

ObjectValue == [kind |-> "object", n |-> 0, s |-> <<>>, e |-> <<>>]

OtherValue == [kind |-> "other", n |-> 0, s |-> <<>>, e |-> <<>>]

\* String.prototype.startsWith
StartsWith(str, prefix) ==
  Len(str) >= Len(prefix) /\ SubSeq(str, 1, Len(prefix)) = prefix

\* the index of the first character at or after i that is not white space
RECURSIVE SkipWs(_, _)
SkipWs(s, i) == IF i <= Len(s) /\ s[i] = " " THEN SkipWs(s, i + 1) ELSE i

\* the index of the first character at or after i that is not a digit
RECURSIVE DigitsEnd(_, _)
DigitsEnd(s, i) == IF i <= Len(s) /\ IsDigit(s[i]) THEN DigitsEnd(s, i + 1) ELSE i

\* the index of the first double quote at or after i, 0 when there is none
RECURSIVE QuoteEnd(_, _)
QuoteEnd(s, i) ==
  IF i > Len(s) THEN 0 ELSE IF s[i] = "\"" THEN i ELSE QuoteEnd(s, i + 1)

JsonFail == [ok |-> FALSE, pos |-> 0, val |-> OtherValue]

JsonOk(pos, val) == [ok |-> TRUE, pos |-> pos, val |-> val]

\* JSON.parse's grammar over texts of brackets, braces, commas, double
\* quotes, digits, letters and blanks: a value is an array, a string, a
\* number without a leading zero, or the empty object; JsonValue reads one
\* value from position i, JsonElements the elements of an array up to its "]"
RECURSIVE JsonValue(_, _)
RECURSIVE JsonElements(_, _, _)
JsonValue(s, i0) ==
  LET i == SkipWs(s, i0) IN
  IF i > Len(s) THEN JsonFail
  ELSE IF s[i] = "[" THEN
    LET j == SkipWs(s, i + 1) IN
    IF j <= Len(s) /\ s[j] = "]" THEN JsonOk(j + 1, ArrayValue(<<>>))
    ELSE JsonElements(s, i + 1, <<>>)
  ELSE IF s[i] = "\"" THEN
    LET j == QuoteEnd(s, i + 1) IN
    IF j = 0 THEN JsonFail ELSE JsonOk(j + 1, StringValue(SubSeq(s, i + 1, j - 1)))
  ELSE IF s[i] = "0" THEN JsonOk(i + 1, NumberValue(0))
  ELSE IF IsDigit(s[i]) THEN
    LET j == DigitsEnd(s, i) IN JsonOk(j, NumberValue(DigitsValue(SubSeq(s, i, j - 1))))
  ELSE IF s[i] = "{" THEN
    LET j == SkipWs(s, i + 1) IN
    IF j <= Len(s) /\ s[j] = "}" THEN JsonOk(j + 1, ObjectValue) ELSE JsonFail
  ELSE JsonFail

JsonElements(s, i, acc) ==
  LET v == JsonValue(s, i) IN
  IF ~v.ok THEN JsonFail
  ELSE
    LET p == SkipWs(s, v.pos) IN
    IF p > Len(s) THEN JsonFail
    ELSE IF s[p] = "," THEN JsonElements(s, p + 1, Append(acc, v.val))
    ELSE IF s[p] = "]" THEN JsonOk(p + 1, ArrayValue(Append(acc, v.val)))
    ELSE JsonFail

\* JSON.parse(s): ok is FALSE where JSON.parse throws a SyntaxError
JsonParse(s) ==
  LET v == JsonValue(s, 1) IN
  IF v.ok /\ SkipWs(s, v.pos) > Len(s) THEN v ELSE JsonFail

\* String({})
ObjectString ==
  <<"[", "o", "b", "j", "e", "c", "t", " ", "O", "b", "j", "e", "c", "t", "]">>

\* String(v); an array is its elements' strings joined by commas
RECURSIVE ToStr(_)
RECURSIVE JoinStr(_, _)
ToStr(v) ==
  IF v.kind = "number" THEN StringOf(v.n)
  ELSE IF v.kind = "string" THEN v.s
  ELSE IF v.kind = "array" THEN JoinStr(v.e, 1)
  ELSE IF v.kind = "object" THEN ObjectString
  ELSE NullName

JoinStr(e, i) ==
  IF i > Len(e) THEN <<>>
  ELSE IF i = Len(e) THEN ToStr(e[i])
  ELSE ToStr(e[i]) \o <<",">> \o JoinStr(e, i + 1)

\* Number(v); NaN is Null
ToNum(v) ==
  IF v.kind = "number" THEN v.n
  ELSE IF v.kind = "other" THEN Null
  ELSE NumberOf(Trim(ToStr(v)))

\* str.split(',')
RECURSIVE SplitComma(_, _, _)
SplitComma(s, i, curr) ==
  IF i > Len(s) THEN <<curr>>
  ELSE IF s[i] = "," THEN <<curr>> \o SplitComma(s, i + 1, <<>>)
  ELSE SplitComma(s, i + 1, Append(curr, s[i]))

\* t.replace(/[^0-9]/g, '')
DigitsOnly(t) == SelectSeq(t, IsDigit)

\* s.slice(1, -1).split(',').map(t => t.trim()).filter(Boolean)
BraceTokens(s) ==
  LET parts == SplitComma(SubSeq(s, 2, Len(s) - 1), 1, <<>>)
      trimmed == [i \in 1..Len(parts) |-> Trim(parts[i])]
  IN SelectSeq(trimmed, LAMBDA t : t # <<>>)

\* the loop of parseIdPath over the tokens from index i: acc is the digit
\* buffer, result the digit groups pushed so far
RECURSIVE IdGroups(_, _, _, _)
IdGroups(tokens, i, acc, result) ==
  IF i > Len(tokens) THEN (IF acc # <<>> THEN Append(result, acc) ELSE result)
  ELSE
    LET t == DigitsOnly(tokens[i]) IN
    IF t = <<>> THEN IdGroups(tokens, i + 1, acc, result)
    ELSE
      LET fits == Len(acc) + Len(t) <= 5
          acc1 == IF fits THEN acc \o t ELSE t
          res1 == IF ~fits /\ acc # <<>> THEN Append(result, acc) ELSE result
          next == IF i + 1 <= Len(tokens) THEN DigitsOnly(tokens[i + 1]) ELSE <<>>
      IN IF Len(acc1) >= 4
            /\ (next = <<>> \/ Len(acc1) = 5 \/ (Len(acc1) = 4 /\ Len(next) > 1))
           THEN IdGroups(tokens, i + 1, <<>>, Append(res1, acc1))
           ELSE IdGroups(tokens, i + 1, acc1, res1)

\* the digit groups parseIdPath pushes for a trimmed brace-delimited string
BraceGroups(s) == IdGroups(BraceTokens(s), 1, <<>>, <<>>)

\* the loop of parseNamePath over the characters from index i
RECURSIVE NameParts(_, _, _, _, _)
NameParts(inner, i, curr, inQ, parts) ==
  IF i > Len(inner) THEN (IF curr # <<>> THEN Append(parts, curr) ELSE parts)
  ELSE IF inner[i] = "\"" THEN NameParts(inner, i + 1, Append(curr, inner[i]), ~inQ, parts)
  ELSE IF inner[i] = "," /\ ~inQ THEN NameParts(inner, i + 1, <<>>, inQ, Append(parts, curr))
  ELSE NameParts(inner, i + 1, Append(curr, inner[i]), inQ, parts)

\* a part without its surrounding white space and double quotes
Unquote(p) ==
  LET t == Trim(p) IN
  IF StartsWith(t, <<"\"">>) /\ EndsWith(t, <<"\"">>) THEN SubSeq(t, 2, Len(t) - 1) ELSE t

\* parts.map(...)
Unquoted(parts) == [i \in 1..Len(parts) |-> Unquote(parts[i])]

\* value.map(Number)
ToNums(e) == [i \in 1..Len(e) |-> ToNum(e[i])]

\* value.map(String)
ToStrs(e) == [i \in 1..Len(e) |-> ToStr(e[i])]

\* Number(acc) of each digit group pushed
GroupIds(groups) == [i \in 1..Len(groups) |-> DigitsValue(groups[i])]

\* what a call returns: its value, or that it threw
Returned(result) == [result |-> result, threw |-> FALSE]

Thrown == [result |-> <<>>, threw |-> TRUE]

\* try { return r } catch { return [] }
TryOrEmpty(r) == IF r.threw THEN Returned(<<>>) ELSE r

\* JSON.parse(s).map(Number): JSON.parse throws on a text that is not JSON
ParseAndMapNumber(s) ==
  LET j == JsonParse(s) IN IF j.ok THEN Returned(ToNums(j.val.e)) ELSE Thrown

\* JSON.parse(s).map(String)
ParseAndMapString(s) ==
  LET j == JsonParse(s) IN IF j.ok THEN Returned(ToStrs(j.val.e)) ELSE Thrown

\* parseIdPath that takes every string with an opening brace for a list
parseIdPathOpenBrace(value) ==
  IF value.kind = "array" THEN Returned(ToNums(value.e))
  ELSE IF value.kind # "string" THEN Returned(<<>>)
  ELSE
    LET s == Trim(value.s) IN
    IF StartsWith(s, <<"[">>) THEN TryOrEmpty(ParseAndMapNumber(s))
    ELSE IF StartsWith(s, <<"{">>) THEN Returned(GroupIds(BraceGroups(s)))
    ELSE Returned(<<>>)

parseIdPath(value) ==
  IF value.kind = "array" THEN Returned(ToNums(value.e))
  ELSE IF value.kind # "string" THEN Returned(<<>>)
  ELSE
    LET s == Trim(value.s) IN
    IF StartsWith(s, <<"[">>) THEN TryOrEmpty(ParseAndMapNumber(s))
    ELSE IF StartsWith(s, <<"{">>) /\ EndsWith(s, <<"}">>)
      THEN Returned(GroupIds(BraceGroups(s)))
    ELSE Returned(<<>>)

parseNamePath(value) ==
  IF value.kind = "array" THEN Returned(ToStrs(value.e))
  ELSE IF value.kind # "string" THEN Returned(<<>>)
  ELSE
    LET s == Trim(value.s) IN
    IF StartsWith(s, <<"[">>) THEN TryOrEmpty(ParseAndMapString(s))
    ELSE IF StartsWith(s, <<"{">>) /\ EndsWith(s, <<"}">>)
      THEN Returned(Unquoted(NameParts(SubSeq(s, 2, Len(s) - 1), 1, <<>>, FALSE, <<>>)))
    ELSE Returned(<<>>)

\* no call of a parser is under way
NoParse ==
  [fn |-> "none", value |-> OtherValue, result |-> <<>>, threw |-> FALSE, done |-> TRUE]

PendingParse(fn, value) ==
  [fn |-> fn, value |-> value, result |-> <<>>, threw |-> FALSE, done |-> FALSE]

ParseFrame == UNCHANGED <<synVars, treeVars, searchVars, groupVars>>

\* normalizeRows' call parseIdPath(r.ids_root_to_leaf)
ParseIds ==
  /\ parseCall.fn = "parseIdPath"
  /\ ~parseCall.done
  /\ \E r \in {parseIdPath(parseCall.value)} :
       parseCall' = [parseCall EXCEPT !.result = r.result, !.threw = r.threw, !.done = TRUE]
  /\ ParseFrame

\* normalizeRows' call parseNamePath(r.names_root_to_leaf)
ParseNames ==
  /\ parseCall.fn = "parseNamePath"
  /\ ~parseCall.done
  /\ \E r \in {parseNamePath(parseCall.value)} :
       parseCall' = [parseCall EXCEPT !.result = r.result, !.threw = r.threw, !.done = TRUE]
  /\ ParseFrame

InitNoParse == parseCall = NoParse

\* ------------------------------------------------------------ Init
InitManager ==
  /\ idToValidId = EmptyMap
  /\ validIdToAllIds = EmptyMap
  /\ nameToValidId = EmptyMap
  /\ validIdToAllNames = EmptyMap
  /\ validIdToInfo = EmptyMap
  /\ isLoaded = FALSE
  /\ loadPc = [c \in 1..MaxLoads |-> "idle"]
  /\ fetchCount = 0
  /\ buildCount = 0
  /\ lateWrite = FALSE

InitNoTree ==
  /\ nodes = <<>>
  /\ byId = <<>>
  /\ treePc = "none"
  /\ graftRuns = 0

\* no search is set up; viewSwitch.js: no highlighted path, no match ids
InitNoSearch ==
  /\ searchPc = "off"
  /\ idToNode = EmptyMap
  /\ searchInput = <<>>
  /\ currentMatches = <<>>
  /\ currentMatchIndex = -1
  /\ isShowingDetails = FALSE
  /\ primaryMatchIds = {}
  /\ synonymMatchIds = {}
  /\ currentHighlightedPath = NoPath
  /\ currentMatchIds = {}
  /\ isFocusView = FALSE
  /\ originalRows = rows
  /\ renderRequest = [by |-> "load", rows |-> rows]
  /\ panel = "hidden"

\* renderMammalTree's default groupDepth
DefaultGroupDepth == 3

\* the tree is neither enriched nor ordered
InitNoOrder ==
  /\ nodePaths = EmptyMap
  /\ hierChildren = EmptyMap
  /\ leafGroups = <<>>
  /\ leafToIndex = EmptyMap
  /\ groupPc = "none"
  /\ sortKeyed = {}

\* no grouping at all
InitNoGroup ==
  /\ InitNoOrder
  /\ groupDepth = DefaultGroupDepth
  /\ inferCall = NoCall

\* the synonym manager alone: any file, no render
InitSyn ==
  /\ synonymData \in SynonymFiles
  /\ InitManager
  /\ rows = <<>>
  /\ allRows = <<>>
  /\ InitNoTree
  /\ InitNoSearch
  /\ InitNoParse
  /\ InitNoGroup

NextSyn ==
  \E c \in 1..MaxLoads :
    \/ LoadCall(c)
    \/ FetchResolve(c)
    \/ LoadReject(c)
    \/ JsonResolve(c)

SpecSyn == InitSyn /\ [][NextSyn]_vars

\* ------------------------------------------------ inputs of a render
\* a normalized row: index-aligned ids and names
RowOf(ids) == [ids |-> ids, names |-> [i \in 1..Len(ids) |-> TaxonName(ids[i])]]

\* any path of at most MaxPathLen ids, rooted or not, ids repeated or not
AnyPaths == SeqsUpTo(TreeIds, MaxPathLen)

\* rooted paths without a repeated id
CleanPaths ==
  {p \in AnyPaths : /\ Len(p) >= 2
                    /\ p[1] = RootId
                    /\ \A i, j \in 1..Len(p) : i # j => p[i] # p[j]}

RowsOver(paths) == SeqsUpTo({RowOf(p) : p \in paths}, MaxRows)

\* entries of a well-typed synonym file over the ids of the tree
TreeEntries ==
  {e \in Entries(TreeIds, Names \cup {RootName, <<"b">>}) :
     /\ e.valid_name = TaxonName(e.valid_id)
     /\ \A i \in 1..Len(e.synonyms) :
          e.synonyms[i].invalid_name = TaxonName(e.synonyms[i].invalid_id)}

\* the rows { taxonid, taxonname } of a set of taxa, by ascending id
RECURSIVE TaxonRows(_)
TaxonRows(S) ==
  IF S = {} THEN <<>>
  ELSE LET m == CHOOSE x \in S : \A y \in S : x <= y
       IN <<[taxonid |-> m, taxonname |-> TaxonName(m)]>> \o TaxonRows(S \ {m})

\* varied path records, an empty synonym file
InitPaths ==
  /\ rows \in RowsOver(AnyPaths)
  /\ synonymData = <<>>
  /\ allRows = TaxonRows(1..MaxId)

\* clean path records, varied synonym files and known taxa
InitGraft ==
  /\ rows \in RowsOver(CleanPaths)
  /\ synonymData \in SeqsUpTo(TreeEntries, MaxEntries)
  /\ allRows \in {TaxonRows(S) : S \in {T \in SUBSET (1..MaxId) : Cardinality(T) >= MaxId - 1}}

InitTree ==
  /\ InitGraft \/ InitPaths
  /\ InitManager
  /\ InitNoTree
  /\ InitNoSearch
  /\ InitNoParse
  /\ InitNoGroup

\* one render: await initSynonyms(), pathsToTree, addMissingSynonyms
NextTree ==
  \/ LoadCall(1)
  \/ FetchResolve(1)
  \/ LoadReject(1)
  \/ JsonResolve(1)
  \/ PathsToTree
  \/ AddMissingSynonyms

SpecTree == InitTree /\ [][NextTree]_vars

\* ------------------------------------------------ entries with several synonyms
\* the entry of valid id v whose synonyms are the ids ss, in that order
EntryOf(v, ss) ==
  [valid_id |-> v, valid_name |-> TaxonName(v),
   synonyms |-> [j \in 1..Len(ss) |->
                   [invalid_id |-> ss[j], invalid_name |-> TaxonName(ss[j])]]]

WideEntries == {EntryOf(v, ss) : v \in 1..MaxId, ss \in SeqsUpTo(1..MaxId, MaxSynonyms + 1)}

\* clean path records, a file of at most one entry, varied known taxa
InitWide ==
  /\ rows \in RowsOver(CleanPaths)
  /\ synonymData \in SeqsUpTo(WideEntries, 1)
  /\ allRows \in {TaxonRows(S) : S \in {T \in SUBSET (1..MaxId) : Cardinality(T) >= MaxId - 1}}
  /\ InitManager
  /\ InitNoTree
  /\ InitNoSearch
  /\ InitNoParse
  /\ InitNoGroup

SpecWide == InitWide /\ [][NextTree]_vars

\* ------------------------------------------------ calls of inferFamilyFromPath
\* names of a path: the empty string, family names in two spellings, a
\* near miss and other names
FamilyNames ==
  {<<>>, <<"i", "d", "a", "e">>, <<"b", "I", "d", "A", "E">>, <<"i", "d", "a">>,
   <<"a">>, <<"A", "b">>}

\* a pending call on any path of at most MaxPathLen names, at any depth
InitFamily ==
  /\ inferCall \in {[names |-> ns, result |-> NullName, done |-> FALSE] :
                      ns \in SeqsUpTo(FamilyNames, MaxPathLen)}
  /\ groupDepth \in 0..MaxDepth
  /\ InitNoOrder
  /\ synonymData = <<>>
  /\ rows = <<>>
  /\ allRows = <<>>
  /\ InitManager
  /\ InitNoTree
  /\ InitNoSearch
  /\ InitNoParse

SpecFamily == InitFamily /\ [][InferFamily]_vars

\* ------------------------------------------------ a render up to the leaf order
\* the names a data set with families gives to the taxon ids
FamilyNameOf(id) ==
  IF id = RootId THEN RootName
  ELSE IF id = 1 THEN <<"b", "I", "d", "A", "E">>
  ELSE IF id = 2 THEN <<"A", "b">>
  ELSE IF id = 3 THEN <<"a">>
  ELSE TaxonName(id)

\* a clean row under the data set's names or under the family names
OrderRows ==
  {RowOf(p) : p \in CleanPaths}
    \cup {[ids |-> p, names |-> [i \in 1..Len(p) |-> FamilyNameOf(p[i])]] : p \in CleanPaths}

\* entries with one synonym, valid and invalid id different
OrderEntries == {EntryOf(v, <<i>>) : v \in 1..MaxId, i \in 1..MaxId} \ {EntryOf(v, <<v>>) : v \in 1..MaxId}

InitOrder ==
  /\ rows \in SeqsUpTo(OrderRows, MaxRows)
  /\ synonymData \in SeqsUpTo(OrderEntries, 1)
  /\ allRows = TaxonRows(1..MaxId)
  /\ groupDepth \in 0..MaxDepth
  /\ InitNoOrder
  /\ inferCall = NoCall
  /\ InitManager
  /\ InitNoTree
  /\ InitNoSearch
  /\ InitNoParse

\* one render: await initSynonyms(), pathsToTree, addMissingSynonyms,
\* enrichTreeWithPaths, reorderTreeForGrouping, computeLeafOrder
NextOrder ==
  \/ LoadCall(1)
  \/ FetchResolve(1)
  \/ LoadReject(1)
  \/ JsonResolve(1)
  \/ PathsToTree
  \/ AddMissingSynonyms
  \/ EnrichTree
  \/ ReorderTree
  \/ ComputeLeafOrder

SpecOrder == InitOrder /\ [][NextOrder]_vars

\* ------------------------------------------------ records as parsed
\* ids of parsed id paths: a missing element is Null (NaN)
ParsedIds == (1..(MaxId - 1)) \cup {RootId, Null}

\* another name the data set may give to a taxon id
AltName(id) == Append(TaxonName(id), "z")

\* the name path that comes with an id path: the data set's names, other
\* names, empty strings, a name path cut after the root, or none
NamesOf(ids, style) ==
  LET own == [i \in 1..Len(ids) |-> IF ids[i] = Null THEN NullName ELSE TaxonName(ids[i])]
  IN CASE style = "own" -> own
       [] style = "alt" -> [i \in 1..Len(ids) |-> IF ids[i] = Null THEN NullName ELSE AltName(ids[i])]
       [] style = "empty" -> [i \in 1..Len(ids) |-> <<>>]
       [] style = "short" -> SubSeq(own, 1, IF Len(ids) >= 1 THEN 1 ELSE 0)
       [] OTHER -> <<>>

NameStyles == {"own", "alt", "empty", "short", "none"}

ParsedRows ==
  {[ids |-> p, names |-> NamesOf(p, st)] : p \in SeqsUpTo(ParsedIds, MaxPathLen), st \in NameStyles}

\* parsed records of any shape, an empty synonym file
InitParsed ==
  /\ rows \in SeqsUpTo(ParsedRows, MaxRows)
  /\ synonymData = <<>>
  /\ allRows = <<>>
  /\ InitManager
  /\ InitNoTree
  /\ InitNoSearch
  /\ InitNoParse
  /\ InitNoGroup

\* await initSynonyms(), then pathsToTree
NextParsed ==
  \/ LoadCall(1)
  \/ FetchResolve(1)
  \/ LoadReject(1)
  \/ JsonResolve(1)
  \/ PathsToTree

SpecParsed == InitParsed /\ [][NextParsed]_vars

\* ------------------------------------------------ a render up to the stored paths
\* a record with the data set's names, whole or cut after the root
EnrichRows ==
  {[ids |-> p, names |-> NamesOf(p, st)] : p \in AnyPaths, st \in {"own", "short"}}

\* records of any shape, rooted or not, an empty synonym file
InitEnrich ==
  /\ rows \in SeqsUpTo(EnrichRows, MaxRows)
  /\ synonymData = <<>>
  /\ allRows = <<>>
  /\ InitManager
  /\ InitNoTree
  /\ InitNoSearch
  /\ InitNoParse
  /\ InitNoGroup

\* one render: await initSynonyms(), pathsToTree, addMissingSynonyms,
\* enrichTreeWithPaths
NextEnrich ==
  \/ LoadCall(1)
  \/ FetchResolve(1)
  \/ LoadReject(1)
  \/ JsonResolve(1)
  \/ PathsToTree
  \/ AddMissingSynonyms
  \/ EnrichTree

SpecEnrich == InitEnrich /\ [][NextEnrich]_vars

\* ------------------------------------------------ a render, then searches
\* what the user types: nothing, an id of the data set, or letters
Queries ==
  {<<>>} \cup {StringOf(id) : id \in TreeIds} \cup {<<"a">>, <<"b">>, <<"z">>}

\* at most one clean path record, varied synonym files, every taxon known
InitSearch ==
  /\ rows \in {rs \in RowsOver(CleanPaths) : Len(rs) <= 1}
  /\ synonymData \in SeqsUpTo(TreeEntries, MaxEntries)
  /\ allRows = TaxonRows(1..MaxId)
  /\ InitManager
  /\ InitNoTree
  /\ InitNoSearch
  /\ InitNoParse
  /\ InitNoGroup

NextSearch ==
  \/ LoadCall(1)
  \/ FetchResolve(1)
  \/ LoadReject(1)
  \/ JsonResolve(1)
  \/ PathsToTree
  \/ AddMissingSynonyms
  \/ SetupSearch
  \/ \E q \in Queries : RunSearch(q)

SpecSearch == InitSearch /\ [][NextSearch]_vars

\* ------------------------------------------------ a page: searches, clicks, views
\* what the user types: nothing, blanks, an id, letters, with blanks around
ViewQueries ==
  {<<>>, <<" ">>, <<" ", "a", " ">>, <<"b">>, <<"z">>, <<"1">>, <<"3">>}

\* rooted paths over the taxa 1 and 2
ViewPaths == {p \in CleanPaths : \A i \in 2..Len(p) : p[i] \in {1, 2}}

\* one to MaxRows clean path records (renderMammalTree returns at once on
\* no rows), a file of at most one entry with one synonym, every taxon known
InitView ==
  /\ rows \in RowsOver(ViewPaths) \ {<<>>}
  /\ synonymData \in SeqsUpTo(OrderEntries, 1)
  /\ allRows = TaxonRows(1..MaxId)
  /\ InitManager
  /\ InitNoTree
  /\ InitNoSearch
  /\ InitNoParse
  /\ InitNoGroup

NextView ==
  \/ LoadCall(1)
  \/ FetchResolve(1)
  \/ LoadReject(1)
  \/ JsonResolve(1)
  \/ PathsToTree
  \/ AddMissingSynonyms
  \/ SetupSearch
  \/ \E v \in ViewQueries : RunSearch(v)
  \/ \E v \in ViewQueries : InputChange(v)
  \/ ArrowDown
  \/ ArrowUp
  \/ \E idx \in 0..MaxId : ClickResult(idx)
  \/ BackToResults
  \/ \E n \in 1..(MaxId + 1) : ClickNode(n)
  \/ PressFocus
  \/ PressWhole

SpecView == InitView /\ [][NextView]_vars

\* ------------------------------------------------ claims on the tree

\* C1: after pathsToTree, and after any number of addMissingSynonyms runs,
\* byId is a bijection with the node set of the tree: every node reachable
\* from the root is the value of byId at its own id, every value of byId is
\* reachable from the root, and no id is carried by two distinct nodes.
C1_ByIdBijection ==
  treePc # "none" =>
    /\ \A n \in TreeNodes(nodes) : OHas(byId, nodes[n].id) /\ OGet(byId, nodes[n].id) = n
    /\ \A i \in 1..Len(byId) : byId[i].v \in TreeNodes(nodes)
    /\ \A i, j \in 1..Len(byId) : byId[i].k = byId[j].k => i = j
    /\ \A n1, n2 \in TreeNodes(nodes) : nodes[n1].id = nodes[n2].id => n1 = n2

\* a tree built from two records that share an id, with a grafted synonym,
\* after the last addMissingSynonyms run
C1_Witness ==
  /\ graftRuns = MaxGraftRuns
  /\ Len(rows) >= 2
  /\ \E n \in 1..Len(nodes) : nodes[n].isSynonym
  /\ \E x \in RowIds(rows) \ {RootId} : \A k \in 1..Len(rows) : x \in RowIds(<<rows[k]>>)

\* C4: addMissingSynonyms is idempotent: a second run on the state left by
\* the first, with the same synonym index and allRows, adds no node and
\* leaves the tree and byId unchanged.
C4_Idempotent ==
  treePc = "grafted" =>
    addMissingSynonyms([nodes |-> nodes, byId |-> byId], allRows) = [nodes |-> nodes, byId |-> byId]

\* C9: when every record starts with the root id, the tree built by
\* pathsToTree has as many nodes as there are distinct ids in the records,
\* the root counted once.
C9_NodeCount ==
  (treePc = "built" /\ AllRooted(rows)) =>
    Cardinality(TreeNodes(nodes)) = Cardinality(RowIds(rows) \cup {RootId})

\* two rooted records that share a non-root id and differ in another
C9_Witness ==
  /\ treePc = "built"
  /\ AllRooted(rows)
  /\ Len(rows) >= 2
  /\ \E x \in RowIds(<<rows[1]>>) \cap RowIds(<<rows[2]>>) : x # RootId
  /\ RowIds(<<rows[1]>>) # RowIds(<<rows[2]>>)
  /\ Cardinality(TreeNodes(nodes)) >= 3

\* C10 as stated: when every record starts with the root id, the ancestor
\* chain of every node the records reach is a longest record-derived path
\* reaching its id.
C10_LongestPath ==
  (treePc = "built" /\ AllRooted(rows)) =>
    \A n \in TreeNodes(nodes) \ {Root} : Chain(nodes, n) \in LongestPathsReaching(rows, nodes[n].id)

\* C10 amended: when every record starts with the root id, the parent of
\* every non-root node is the node of the id that precedes the node's id at
\* its first occurrence in the first record, in input order, that reaches it.
C10_FirstWriterParent ==
  (treePc = "built" /\ AllRooted(rows)) =>
    \A n \in TreeNodes(nodes) \ {Root} :
      /\ ParentOf(nodes, n) # NoNode
      /\ nodes[ParentOf(nodes, n)].id = PredecessorOf(rows, nodes[n].id)

\* a later record reaches an id by a longer path than the first one did
C10_Witness ==
  /\ treePc = "built"
  /\ AllRooted(rows)
  /\ \E n \in TreeNodes(nodes) \ {Root} :
       \E p \in PathsReaching(rows, nodes[n].id) : Len(p) > Len(Chain(nodes, n))

\* C14: in the tree returned by pathsToTree, and still after
\* addMissingSynonyms, every node either has no children field or a
\* non-empty children list; from no record at all the tree is the root
\* alone, without a children field.
C14_NoEmptyChildren ==
  treePc # "none" =>
    /\ \A n \in TreeNodes(nodes) : nodes[n].hasChildren => Len(nodes[n].children) > 0
    /\ rows = <<>> => (Len(nodes) = 1 /\ ~nodes[Root].hasChildren)

\* after a graft run: a leaf made by pathsToTree, a grafted leaf, and an
\* internal node below the root
C14_Witness ==
  /\ treePc = "grafted"
  /\ \E n \in TreeNodes(nodes) : nodes[n].isSynonym /\ ~nodes[n].hasChildren
  /\ \E n \in TreeNodes(nodes) : ~nodes[n].isSynonym /\ ~nodes[n].hasChildren
  /\ \E n \in TreeNodes(nodes) \ {Root} : nodes[n].hasChildren

\* the node was added by addMissingSynonyms: its id is in no path record
Grafted(n) == nodes[n].id \notin RowIds(rows) \cup {RootId}

\* C17: every node added by addMissingSynonyms is a leaf flagged isSynonym
\* whose validId is the valid id of an entry that lists its id, and it is a
\* sibling of the tree node whose id is that validId.
C17_SiblingOfValid ==
  treePc = "grafted" =>
    \A n \in TreeNodes(nodes) :
      Grafted(n) =>
        /\ nodes[n].isSynonym
        /\ ~nodes[n].hasChildren
        /\ \E k \in 1..Len(synonymData) :
             /\ synonymData[k].valid_id = nodes[n].validId
             /\ \E j \in 1..Len(synonymData[k].synonyms) :
                  synonymData[k].synonyms[j].invalid_id = nodes[n].id
        /\ OHas(byId, nodes[n].validId)
        /\ ParentOf(nodes, n) = ParentOf(nodes, OGet(byId, nodes[n].validId))

\* s is a prefix of t
IsPrefix(s, t) == Len(s) <= Len(t) /\ \A i \in 1..Len(s) : s[i] = t[i]

Settled(c) == loadPc[c] \in {"returned", "loaded", "failed", "threw"}

\* the ids and names the queries are asked about
QueryIds == Ids \cup TreeIds

\* C5: once a load has completed, every id that is a key of idToValidId is
\* a member of exactly one of the sets stored in validIdToAllIds.
C5_ExactlyOneSet ==
  (\E c \in 1..MaxLoads : loadPc[c] = "loaded") =>
    \A id \in DOMAIN idToValidId :
      Cardinality({v \in DOMAIN validIdToAllIds : id \in Members(validIdToAllIds[v])}) = 1

\* C6: when a load has failed and none has succeeded, no load call has let
\* the failure escape, isReady() is false, and getValidId and getSynonymInfo
\* return null, getAllSynonymIds and getAllSynonymNames the empty set and
\* isInvalidId false, for every id.
C6_FailedLoadNotFound ==
  ((\E c \in 1..MaxLoads : loadPc[c] = "failed") /\ (\A c \in 1..MaxLoads : loadPc[c] # "loaded")) =>
    /\ \A c \in 1..MaxLoads : loadPc[c] # "threw"
    /\ ~isReady
    /\ \A id \in QueryIds :
         /\ getValidId(id) = Null
         /\ getSynonymInfo(id) = NoInfo
         /\ getAllSynonymIds(id) = <<>>
         /\ getAllSynonymNames(id) = <<>>
         /\ ~isInvalidId(id)

\* C7: as long as no load() call has returned (none was made, or the fetch
\* or the parse of each call made is pending), isReady() is false and every
\* query returns its not-found value.
C7_NotReadyBeforeLoad ==
  (\A c \in 1..MaxLoads : ~Settled(c)) =>
    /\ ~isReady
    /\ \A id \in QueryIds :
         /\ getValidId(id) = Null
         /\ getSynonymInfo(id) = NoInfo
         /\ getValidName(id) = NullName
         /\ getAllSynonymIds(id) = <<>>
         /\ getAllSynonymNames(id) = <<>>
         /\ ~isInvalidId(id)
    /\ \A name \in Names :
         /\ getValidIdByName(name) = Null
         /\ ~isInvalidName(name)

\* two load() calls are pending on a file that holds entries
C7_Witness ==
  /\ \A c \in 1..MaxLoads : loadPc[c] \in {"fetching", "parsing"}
  /\ \E c \in 1..MaxLoads : loadPc[c] = "parsing"
  /\ Len(synonymData) >= 1

\* C8: loading is single-flight: the file is fetched at most once, the maps
\* are built at most once, and no map is written once isReady() is true.
C8_SingleFlight ==
  /\ fetchCount <= 1
  /\ buildCount <= 1
  /\ ~lateWrite

\* the entries of the loaded file
FileEntries == {synonymData[k] : k \in 1..Len(synonymData)}

\* the ids that appear in the file, as valid or as invalid id
FileIds ==
  UNION {{e.valid_id} \cup {e.synonyms[j].invalid_id : j \in 1..Len(e.synonyms)} :
         e \in FileEntries}

\* a load() call has built the maps from the whole file
LoadSucceeded == \E c \in 1..MaxLoads : loadPc[c] = "loaded"

\* C15: after a successful load, isInvalidId(id) is true exactly when
\* getValidId(id) yields an id different from id; and for every entry with
\* valid id v and every synonym of it with invalid id i: getValidId(i) = v,
\* isInvalidId(i), not isInvalidId(v), and getAllSynonymNames(v) is the
\* valid name together with the invalid names of the entry.
C15_ResolveEntry ==
  LoadSucceeded =>
    /\ \A id \in QueryIds :
         isInvalidId(id) <=> (getValidId(id) # Null /\ getValidId(id) # id)
    /\ \A e \in FileEntries :
         /\ \A j \in 1..Len(e.synonyms) :
              /\ getValidId(e.synonyms[j].invalid_id) = e.valid_id
              /\ isInvalidId(e.synonyms[j].invalid_id)
         /\ ~isInvalidId(e.valid_id)
         /\ Members(getAllSynonymNames(e.valid_id)) =
              {e.valid_name} \cup {e.synonyms[j].invalid_name : j \in 1..Len(e.synonyms)}

\* C16: after a successful load, getAllSynonymIds(v) contains v for every
\* valid id v of the file, and isInvalidId(id) is false for every id that
\* appears in no entry.
C16_ValidIdInOwnSet ==
  LoadSucceeded =>
    /\ \A e \in FileEntries : e.valid_id \in Members(getAllSynonymIds(e.valid_id))
    /\ \A id \in QueryIds \ FileIds : ~isInvalidId(id)

\* ------------------------------------------------ claims on the search
\* the id an exact-id search was run for, Null when the last search was none
ExactId ==
  IF searchPc = "ready" /\ searchInput # <<>> /\ NumberOf(searchInput) # Null
     /\ MapHas(idToNode, NumberOf(searchInput))
  THEN NumberOf(searchInput) ELSE Null

MatchedIds == {nodes[currentMatches[i]].id : i \in 1..Len(currentMatches)}

TreeIdsOf(h) == {h[n].id : n \in TreeNodes(h)}

\* C2: after an exact-id search the queried node is in the match list and
\* its id is classified primary, whatever the state of the synonym index.
C2_QueriedIdMatched ==
  ExactId # Null =>
    /\ \E i \in 1..Len(currentMatches) : currentMatches[i] = idToNode[ExactId]
    /\ ExactId \in primaryMatchIds

\* C3: after an exact-id search with the synonym index ready, the matched
\* ids are the synonym-id closure of the queried id restricted to the ids of
\* the tree, the queried id is primary and every other matched id is
\* classified synonym and not primary.
C3_IdSearchClosure ==
  (ExactId # Null /\ isReady) =>
    /\ MatchedIds = Members(getAllSynonymIds(ExactId)) \cap TreeIdsOf(nodes)
    /\ ExactId \in primaryMatchIds
    /\ \A x \in MatchedIds \ {ExactId} : x \in synonymMatchIds /\ x \notin primaryMatchIds

\* an invalid id present in the tree was queried, and its valid counterpart
\* is in the tree too
C3_Witness ==
  /\ ExactId # Null
  /\ isReady
  /\ isInvalidId(ExactId)
  /\ getValidId(ExactId) \in MatchedIds
  /\ getValidId(ExactId) \in synonymMatchIds
  /\ ExactId \in MatchedIds

\* ------------------------------------------------ claims on parsed records
\* the record's first id is the configured root id
Rooted(r) == Len(r.ids) >= 1 /\ r.ids[1] = RootId

\* the input without its unrooted records
RootedOnly(rs) == SelectSeq(rs, Rooted)

\* the parent relation of a tree, on ids
ParentPairs(h) == {<<h[ParentOf(h, n)].id, h[n].id>> : n \in TreeNodes(h) \ {Root}}

\* r holds x after its first position
Reaches(r, x) == \E i \in 2..Len(r.ids) : r.ids[i] = x

\* the first rooted record, in input order, that reaches x
FirstRootedWith(rs, x) ==
  CHOOSE k \in 1..Len(rs) :
    /\ Rooted(rs[k]) /\ Reaches(rs[k], x)
    /\ \A k2 \in 1..(k - 1) : ~(Rooted(rs[k2]) /\ Reaches(rs[k2], x))

\* the places <<record, position>> where the input gives x a non-empty name
NamedPlaces(rs, x) ==
  {pl \in (1..Len(rs)) \X (1..MaxPathLen) :
     /\ pl[2] <= Len(rs[pl[1]].ids)
     /\ rs[pl[1]].ids[pl[2]] = x
     /\ TruthyName(NameAt(rs[pl[1]].names, pl[2]))}

\* the first non-empty name the input gives x, in input order
FirstGivenName(rs, x) ==
  LET pl == CHOOSE a \in NamedPlaces(rs, x) :
              \A b \in NamedPlaces(rs, x) : a[1] < b[1] \/ (a[1] = b[1] /\ a[2] <= b[2])
  IN rs[pl[1]].names[pl[2]]

\* C11: a record whose first id is not the root id is skipped by
\* pathsToTree: the tree has the node objects, the ids and the parent
\* relation it has when the unrooted records are removed from the input.
C11_UnrootedSkipped ==
  treePc = "built" =>
    LET t == pathsToTree(RootedOnly(rows), RootId, RootName)
    IN /\ Len(nodes) = Len(t.nodes)
       /\ TreeIdsOf(nodes) = TreeIdsOf(t.nodes)
       /\ ParentPairs(nodes) = ParentPairs(t.nodes)

\* a tree built from a rooted record and an unrooted one that holds an id
\* no rooted record reaches
C11_Witness ==
  /\ treePc = "built"
  /\ \E k \in 1..Len(rows) : Rooted(rows[k]) /\ Len(rows[k].ids) >= 2
  /\ \E k \in 1..Len(rows) :
       /\ ~Rooted(rows[k])
       /\ \E i \in 1..Len(rows[k].ids) :
            rows[k].ids[i] # Null /\ rows[k].ids[i] \notin TreeIdsOf(nodes)

\* C12: when a rooted record has a missing id at some position, pathsToTree
\* creates no node for that position: the tree holds no node whose id is the
\* missing value, and no node hangs under such a node.
C12_GapSkipped ==
  (treePc = "built" /\ \E k \in 1..Len(rows) : Rooted(rows[k]) /\ Reaches(rows[k], Null)) =>
    /\ Null \notin TreeIdsOf(nodes)
    /\ \A pr \in ParentPairs(nodes) : pr[1] # Null

\* C13 as stated: the name and the parent of every node are those the first
\* rooted record, in input order, that reaches its id gives at that position.
C13_FirstRecordName ==
  treePc = "built" =>
    \A n \in TreeNodes(nodes) \ {Root} :
      LET r == rows[FirstRootedWith(rows, nodes[n].id)]
          i == FirstPositionIn(r, nodes[n].id)
      IN /\ nodes[n].name = NameAt(r.names, i)
         /\ nodes[ParentOf(nodes, n)].id = r.ids[i - 1]

\* C13 amended: the parent of every node is the one given by the first
\* rooted record, in input order, that reaches its id; its name is the name
\* that record carries at that position when it carries one, otherwise the
\* first non-empty name any record of the input gives to the id, otherwise
\* the id as a string.
C13_FirstWriter ==
  treePc = "built" =>
    \A n \in TreeNodes(nodes) \ {Root} :
      LET x == nodes[n].id
          r == rows[FirstRootedWith(rows, x)]
          i == FirstPositionIn(r, x)
      IN /\ nodes[n].name =
              IF NameAt(r.names, i) # NullName THEN NameAt(r.names, i)
              ELSE IF x # Null /\ NamedPlaces(rows, x) # {} THEN FirstGivenName(rows, x)
              ELSE IdString(x)
         /\ nodes[ParentOf(nodes, n)].id = r.ids[i - 1]

\* two rooted records reach one id under different names and under
\* different predecessors
C13_Witness ==
  /\ treePc = "built"
  /\ Len(rows) >= 2
  /\ Rooted(rows[1]) /\ Rooted(rows[2])
  /\ \E x \in TreeIdsOf(nodes) \ {RootId, Null} :
       /\ Reaches(rows[1], x) /\ Reaches(rows[2], x)
       /\ LET i1 == FirstPositionIn(rows[1], x)
              i2 == FirstPositionIn(rows[2], x)
          IN /\ TruthyName(NameAt(rows[1].names, i1))
             /\ TruthyName(NameAt(rows[2].names, i2))
             /\ NameAt(rows[1].names, i1) # NameAt(rows[2].names, i2)
             /\ rows[1].ids[i1 - 1] # rows[2].ids[i2 - 1]

\* ------------------------------------------------ claims on the grouping
\* the name ends in 'idae', whatever the case of its letters
EndsInIdae(nm) == EndsWith(ToLowerCase(nm), FamilySuffix)

\* the positions of a path that hold a name ending in 'idae'
IdaePositions(names) == {i \in 1..Len(names) : EndsInIdae(names[i])}

\* the position nearest the leaf among them
LastIdae(names) == CHOOSE i \in IdaePositions(names) : \A j \in IdaePositions(names) : j <= i

\* inferFamilyFromPath has been called and has returned
Inferred == inferCall.done /\ inferCall.result # NullName

\* C19 as stated: the result of inferFamilyFromPath(names, groupDepth) is
\* the name nearest the leaf that ends in 'idae' if there is one; otherwise
\* names[groupDepth] when the path is longer than groupDepth; otherwise the
\* second-to-last name when the path has at least 2 entries; otherwise the
\* first name, or 'Unknown' for an empty path.
C19_PriorityOrder ==
  Inferred =>
    LET names == inferCall.names
    IN inferCall.result =
         IF IdaePositions(names) # {} THEN names[LastIdae(names)]
         ELSE IF Len(names) > groupDepth THEN names[groupDepth + 1]
         ELSE IF Len(names) >= 2 THEN names[Len(names) - 1]
         ELSE IF Len(names) >= 1 THEN names[1]
         ELSE Unknown

\* C19 amended: as above, except that names[groupDepth] is returned only
\* when it is not the empty string (otherwise the next rules apply), and
\* the first name of a one-entry path only when it is not the empty string
\* (otherwise 'Unknown').
C19_PriorityNonEmpty ==
  Inferred =>
    LET names == inferCall.names
    IN inferCall.result =
         IF IdaePositions(names) # {} THEN names[LastIdae(names)]
         ELSE IF Len(names) > groupDepth /\ names[groupDepth + 1] # <<>> THEN names[groupDepth + 1]
         ELSE IF Len(names) >= 2 THEN names[Len(names) - 1]
         ELSE IF Len(names) >= 1 /\ names[1] # <<>> THEN names[1]
         ELSE Unknown

\* a path with two different names ending in 'idae', longer than
\* groupDepth, whose name at groupDepth is neither of them
C19_Witness ==
  /\ Inferred
  /\ Len(inferCall.names) > groupDepth
  /\ ~EndsInIdae(inferCall.names[groupDepth + 1])
  /\ inferCall.names[groupDepth + 1] # <<>>
  /\ \E i, j \in IdaePositions(inferCall.names) :
       i < j /\ inferCall.names[i] # inferCall.names[j]

\* the leaves of the tree
LeafNodes == {n \in TreeNodes(nodes) : ~nodes[n].hasChildren}

\* leaf.data.name || ''
LeafName(n) == IF TruthyName(nodes[n].name) THEN nodes[n].name ELSE <<>>

\* C20: computeLeafOrder gives the leaves the indices 0..n-1, each exactly
\* once, and leafGroups lists them by index; a leaf whose group key comes
\* before another's in the collation order has the smaller index, and of
\* two leaves with one group key the one whose name comes first has the
\* smaller index.
C20_LeafOrder ==
  groupPc = "ordered" =>
    /\ DOMAIN leafToIndex = LeafNodes
    /\ {leafToIndex[l] : l \in LeafNodes} = 0..(Cardinality(LeafNodes) - 1)
    /\ Len(leafGroups) = Cardinality(LeafNodes)
    /\ \A l \in LeafNodes : leafGroups[leafToIndex[l] + 1].leaf = l
    /\ \A a, b \in LeafNodes :
         LocaleCompare(getGroupKey(a, groupDepth), getGroupKey(b, groupDepth)) < 0
           => leafToIndex[a] < leafToIndex[b]
    /\ \A a, b \in LeafNodes :
         (/\ getGroupKey(a, groupDepth) = getGroupKey(b, groupDepth)
          /\ LocaleCompare(LeafName(a), LeafName(b)) < 0)
           => leafToIndex[a] < leafToIndex[b]

\* three leaves in two groups, two of them in one group, and an order that
\* is not the order in which the hierarchy lists the leaves
C20_Witness ==
  /\ groupPc = "ordered"
  /\ Cardinality(LeafNodes) >= 3
  /\ \E a, b, c \in LeafNodes :
       /\ a # b
       /\ getGroupKey(a, groupDepth) = getGroupKey(b, groupDepth)
       /\ LeafName(a) # LeafName(b)
       /\ getGroupKey(c, groupDepth) # getGroupKey(a, groupDepth)
  /\ [i \in 1..Len(leafGroups) |-> leafGroups[i].leaf] # Leaves([n \in 1..Len(nodes) |-> nodes[n].children], Root)

\* the leaves below node c of the hierarchy
LeavesUnder(hc, c) == {l \in HierReach(hc, {c}) : Len(hc[l]) = 0}

\* the sum of the leaf-order indices of a set of leaves
RECURSIVE SumOver(_, _)
SumOver(l2i, S) ==
  IF S = {} THEN 0
  ELSE LET l == CHOOSE x \in S : TRUE IN l2i[l] + SumOver(l2i, S \ {l})

\* the mean index under a is at most the mean index under b
MeanAtMost(hc, l2i, a, b) ==
  SumOver(l2i, LeavesUnder(hc, a)) * Cardinality(LeavesUnder(hc, b))
    <= SumOver(l2i, LeavesUnder(hc, b)) * Cardinality(LeavesUnder(hc, a))

\* the hierarchy as d3.hierarchy built it from the tree
DataChildren == [n \in 1..Len(nodes) |-> nodes[n].children]

\* C21: after reorderTreeForGrouping, the children of every node come in
\* ascending order of the mean leaf-order index of their leaves (the leaf
\* order being the one the pass computed); every node has the children it
\* had, each once; and no node carries a _sortKey field.
C21_ChildrenByMeanIndex ==
  groupPc \in {"reordered", "ordered"} =>
    LET l2i == computeLeafOrder(DataChildren, groupDepth).leafToIndex
    IN /\ \A n \in TreeNodes(nodes) :
            \A i, j \in 1..Len(hierChildren[n]) :
              i < j => MeanAtMost(hierChildren, l2i, hierChildren[n][i], hierChildren[n][j])
       /\ \A n \in 1..Len(nodes) :
            /\ Len(hierChildren[n]) = Len(nodes[n].children)
            /\ Members(hierChildren[n]) = Members(nodes[n].children)
       /\ sortKeyed = {}

\* the pass has changed the order of the children of the root, one of which
\* is an internal node
C21_Witness ==
  /\ groupPc = "reordered"
  /\ hierChildren[Root] # nodes[Root].children
  /\ \E j \in 1..Len(hierChildren[Root]) : Len(hierChildren[hierChildren[Root][j]]) > 0

\* r holds x at some position
Holds(r, x) == \E i \in 1..Len(r.ids) : r.ids[i] = x

\* the first record, in input order, that holds x
FirstHolding(rs, x) ==
  CHOOSE k \in 1..Len(rs) : Holds(rs[k], x) /\ \A k2 \in 1..(k - 1) : ~Holds(rs[k2], x)

\* C28: after enrichTreeWithPaths, the pathIds of every tree node that has
\* them begin with the root id of the tree, end with the node's own id,
\* are as long as its pathNames, and are a prefix of the first record, in
\* input order, that holds the id.
C28_FullRootPath ==
  groupPc = "enriched" =>
    \A n \in DOMAIN nodePaths :
      /\ Len(nodePaths[n].ids) >= 1
      /\ nodePaths[n].ids[1] = nodes[Root].id
      /\ nodePaths[n].ids[Len(nodePaths[n].ids)] = nodes[n].id
      /\ Len(nodePaths[n].names) = Len(nodePaths[n].ids)
      /\ IsPrefix(nodePaths[n].ids, rows[FirstHolding(rows, nodes[n].id)].ids)

\* ------------------------------------------------ claims on the name search
\* a search was run for a query that is not an id of the tree
NameQuery == searchPc = "ready" /\ searchInput # <<>> /\ ExactId = Null

\* the node's own name holds the query, case-insensitively
OwnNameHolds(n) == NameIncludes(nodes[n].name, ToLowerCase(searchInput))

\* the tree nodes whose own name holds the query
OwnNameMatches == {n \in TreeNodes(nodes) : OwnNameHolds(n)}

\* one of the synonym names the index records for the id holds the query
SynonymNameHolds(id) ==
  SomeNameIncludes(getAllSynonymNames(id), ToLowerCase(searchInput))

\* the id is in the synonym-id closure of a node whose own name holds the
\* query
InClosureOfOwnMatch(id) ==
  \E p \in OwnNameMatches : id \in Members(getAllSynonymIds(nodes[p].id))

\* the id is in the synonym-id closure of a node that does not hold the
\* query in its own name but in one of its synonym names
InClosureOfSynonymNameMatch(id) ==
  \E x \in TreeNodes(nodes) :
    /\ ~OwnNameHolds(x)
    /\ SynonymNameHolds(nodes[x].id)
    /\ id \in Members(getAllSynonymIds(nodes[x].id))

\* C22: a name search whose query is a substring (case-insensitive) of
\* exactly one tree node's name returns a match list holding exactly that
\* node, classified primary, whatever the state of the synonym index and
\* whether or not the node has synonyms in the tree.
C22_SingleNameMatch ==
  (NameQuery /\ Cardinality(OwnNameMatches) = 1) =>
    \A n \in OwnNameMatches :
      /\ currentMatches = <<n>>
      /\ primaryMatchIds = {nodes[n].id}
      /\ synonymMatchIds = {}

\* C22 as amended: the match list begins with that node, classified
\* primary; it holds exactly that node when the synonym index is not ready;
\* every further match is in the synonym-id closure of that node, and then
\* classified synonym, or in the closure of a node one of whose synonym
\* names holds the query.
C22_SingleNameMatchFirst ==
  (NameQuery /\ Cardinality(OwnNameMatches) = 1) =>
    \A n \in OwnNameMatches :
      /\ Len(currentMatches) >= 1
      /\ currentMatches[1] = n
      /\ nodes[n].id \in primaryMatchIds
      /\ nodes[n].id \notin synonymMatchIds
      /\ ~isReady => /\ currentMatches = <<n>>
                     /\ primaryMatchIds = {nodes[n].id}
                     /\ synonymMatchIds = {}
      /\ \A i \in 2..Len(currentMatches) :
           /\ \/ InClosureOfOwnMatch(nodes[currentMatches[i]].id)
              \/ InClosureOfSynonymNameMatch(nodes[currentMatches[i]].id)
           /\ InClosureOfOwnMatch(nodes[currentMatches[i]].id) =>
                nodes[currentMatches[i]].id \in synonymMatchIds

\* the query is in the name of one node only, and the search returned that
\* node, a synonym of it and a node found through a synonym name
C22_Witness ==
  /\ NameQuery
  /\ Cardinality(OwnNameMatches) = 1
  /\ isReady
  /\ \E i, j \in 2..Len(currentMatches) :
       /\ InClosureOfOwnMatch(nodes[currentMatches[i]].id)
       /\ ~InClosureOfOwnMatch(nodes[currentMatches[j]].id)

\* C23: in a name search, a matched node whose own name does not hold the
\* query is classified synonym, and a node is classified primary only when
\* its own name holds the query.
C23_OwnNameDecides ==
  NameQuery =>
    \A i \in 1..Len(currentMatches) :
      /\ nodes[currentMatches[i]].id \in primaryMatchIds => OwnNameHolds(currentMatches[i])
      /\ ~OwnNameHolds(currentMatches[i]) => nodes[currentMatches[i]].id \in synonymMatchIds

\* C23 as amended: every match whose own name holds the query is classified
\* primary; a match whose own name does not hold it is classified synonym
\* when it is in the synonym-id closure of a node whose own name holds the
\* query; otherwise it was found through a synonym name and is classified
\* primary when one of its synonym names holds the query, synonym when none
\* does.
C23_SynonymNameIsPrimary ==
  NameQuery =>
    \A i \in 1..Len(currentMatches) :
      LET n == currentMatches[i]
          id == nodes[currentMatches[i]].id
          isPrimary == id \in primaryMatchIds /\ id \notin synonymMatchIds
          isSynonym == id \in synonymMatchIds /\ id \notin primaryMatchIds
      IN /\ OwnNameHolds(n) => isPrimary
         /\ (~OwnNameHolds(n) /\ InClosureOfOwnMatch(id)) => isSynonym
         /\ (~OwnNameHolds(n) /\ ~InClosureOfOwnMatch(id)) =>
              IF SynonymNameHolds(id) THEN isPrimary ELSE isSynonym

\* one search returned a closure member classified synonym and a node,
\* found through a synonym name, classified primary; neither holds the query
\* in its own name
C23_Witness ==
  /\ NameQuery
  /\ \E i, j \in 1..Len(currentMatches) :
       /\ ~OwnNameHolds(currentMatches[i])
       /\ nodes[currentMatches[i]].id \in synonymMatchIds
       /\ ~OwnNameHolds(currentMatches[j])
       /\ nodes[currentMatches[j]].id \in primaryMatchIds

\* C29: after every search the match list holds no id twice, primaryMatchIds
\* and synonymMatchIds are disjoint, their union is the set of ids of the
\* matched nodes, and the ids handed to the view switch are that same set.
C29_Classification ==
  (searchPc = "ready" /\ searchInput # <<>>) =>
    /\ \A i, j \in 1..Len(currentMatches) :
         i # j => nodes[currentMatches[i]].id # nodes[currentMatches[j]].id
    /\ primaryMatchIds \cap synonymMatchIds = {}
    /\ primaryMatchIds \cup synonymMatchIds = MatchedIds
    /\ Len(currentMatches) > 0 => currentMatchIds = MatchedIds

\* ------------------------------------------------ claims on the page
\* runSearch or the input handler reads a value that trims to nothing
EmptyQueryStep == \E v \in ViewQueries : Trim(v) = <<>> /\ (RunSearch(v) \/ InputChange(v))

\* runSearch reads a query that is not empty and finds no match
ZeroMatchStep ==
  \E v \in ViewQueries : Trim(v) # <<>> /\ RunSearch(v) /\ Len(currentMatches') = 0

\* C24: an empty or whitespace-only query, submitted via search or by
\* clearing the input, leaves from any prior state an empty match list,
\* index -1, empty primaryMatchIds and synonymMatchIds, no highlighted path
\* and no match ids in the view switch; a query with zero matches leaves an
\* empty match list and no highlighted path.
C24_EmptyQueryClears ==
  [][/\ EmptyQueryStep =>
          /\ currentMatches' = <<>>
          /\ currentMatchIndex' = -1
          /\ primaryMatchIds' = {}
          /\ synonymMatchIds' = {}
          /\ currentHighlightedPath' = NoPath
          /\ currentMatchIds' = {}
     /\ ZeroMatchStep =>
          /\ currentMatches' = <<>>
          /\ currentHighlightedPath' = NoPath]_vars

\* the search state was cleared in the focus view, which is only entered
\* with a highlighted path or match ids: the whole view is requested
C24_Witness ==
  /\ searchPc = "off"
  /\ renderRequest.by = "switchToWholeView"
  /\ ~isFocusView
  /\ searchInput = <<>>
  /\ currentMatches = <<>>
  /\ currentHighlightedPath = NoPath
  /\ currentMatchIds = {}

\* the index is -1 or a position of the match list
IndexInRange ==
  currentMatchIndex = -1 \/ currentMatchIndex \in 0..(Len(currentMatches) - 1)

\* C25: after any sequence of searches, result clicks and ArrowDown /
\* ArrowUp steps the index is -1 or in [0, length-1]; a step on a non-empty
\* list leaves it in [0, length-1], stays at the last match going forward
\* and at the first going backward, and moves the index by at most one
\* position; a step on an empty list changes nothing.
C25_StepsClamp ==
  [][/\ IndexInRange /\ IndexInRange'
     /\ ((ArrowDown \/ ArrowUp) /\ Len(currentMatches) > 0) =>
          /\ currentMatchIndex' \in 0..(Len(currentMatches) - 1)
          /\ currentMatchIndex' - currentMatchIndex \in {-1, 0, 1}
     /\ (ArrowDown /\ currentMatchIndex = Len(currentMatches) - 1) =>
          currentMatchIndex' = currentMatchIndex
     /\ (ArrowUp /\ currentMatchIndex = 0) => currentMatchIndex' = 0
     /\ ((ArrowDown \/ ArrowUp) /\ Len(currentMatches) = 0) => UNCHANGED vars]_vars

\* C25 as amended: from a selected match a step moves the index by at most
\* one position; from no selection ArrowDown selects the first match and
\* ArrowUp the last one.
C25_StepsClampFromSelection ==
  [][/\ IndexInRange /\ IndexInRange'
     /\ ((ArrowDown \/ ArrowUp) /\ Len(currentMatches) > 0) =>
          /\ currentMatchIndex' \in 0..(Len(currentMatches) - 1)
          /\ currentMatchIndex >= 0 =>
               currentMatchIndex' - currentMatchIndex \in {-1, 0, 1}
     /\ (ArrowDown /\ Len(currentMatches) > 0 /\ currentMatchIndex = -1) =>
          currentMatchIndex' = 0
     /\ (ArrowUp /\ Len(currentMatches) > 0 /\ currentMatchIndex = -1) =>
          currentMatchIndex' = Len(currentMatches) - 1
     /\ (ArrowDown /\ currentMatchIndex = Len(currentMatches) - 1) =>
          currentMatchIndex' = currentMatchIndex
     /\ (ArrowUp /\ currentMatchIndex = 0) => currentMatchIndex' = 0
     /\ ((ArrowDown \/ ArrowUp) /\ Len(currentMatches) = 0) => UNCHANGED vars]_vars

\* the last of several matches is selected and its path shown by a step
C25_Witness ==
  /\ searchPc = "ready"
  /\ Len(currentMatches) > 1
  /\ currentMatchIndex = Len(currentMatches) - 1
  /\ panel = "path"
  /\ currentHighlightedPath.node = currentMatches[Len(currentMatches)]

\* C30: whenever isFocusView is true, the most recent render request was
\* issued by switchToFocusView with the filtered rows: those whose id path
\* holds a matched id or, without match ids, the highlighted node's id.
C30_FocusMeansFilteredRender ==
  isFocusView =>
    /\ renderRequest.by = "switchToFocusView"
    /\ renderRequest.rows = FilteredRows(currentHighlightedPath, currentMatchIds)

\* ------------------------------------------------------------ a call of a path parser
MaxChars == 4

MaxTokens == 3

\* the characters of the strings handed to the parsers
CodecChars == {"[", "]", "{", "}", ",", "\"", "0", "1", "a", " "}

CodecStrings == SeqsUpTo(CodecChars, MaxChars)

\* the comma-separated pieces of an exported id list
IdTokens ==
  { <<"1">>, <<" ", "2", "3">>, <<"4", "5", "6">>, <<"7", "8", "9", "0">>,
    <<"1", "2", "3", "4", "5">>, <<"1", "2", "3", "4", "5", "6">>, <<"a">> }

RECURSIVE JoinComma(_, _)
JoinComma(ts, i) ==
  IF i > Len(ts) THEN <<>>
  ELSE IF i = Len(ts) THEN ts[i]
  ELSE ts[i] \o <<",">> \o JoinComma(ts, i + 1)

\* the brace-delimited export of a list of pieces
BraceOf(ts) == <<"{">> \o JoinComma(ts, 1) \o <<"}">>

BraceStrings == {BraceOf(ts) : ts \in SeqsUpTo(IdTokens, MaxTokens)}

ArrayElements == {NumberValue(1), StringValue(<<"1">>), StringValue(<<"a">>)}

\* the values of a row's ids_root_to_leaf / names_root_to_leaf field
CodecValues ==
  {StringValue(s) : s \in CodecStrings \cup BraceStrings}
    \cup {ArrayValue(e) : e \in SeqsUpTo(ArrayElements, 2)}
    \cup {OtherValue, NumberValue(1), ObjectValue}

InitCodec ==
  /\ synonymData = <<>>
  /\ InitManager
  /\ rows = <<>>
  /\ allRows = <<>>
  /\ InitNoTree
  /\ InitNoSearch
  /\ InitNoGroup
  /\ parseCall \in {PendingParse(fn, v) : fn \in {"parseIdPath", "parseNamePath"},
                                          v \in CodecValues}

NextCodec ==
  \/ ParseIds
  \/ ParseNames

SpecCodec == InitCodec /\ [][NextCodec]_vars

\* ------------------------------------------------------------ claims on the path parsers
\* a parser has returned from a call on a string
ParsedString == parseCall.done /\ parseCall.fn # "none" /\ parseCall.value.kind = "string"

\* s starts with "[" and holds valid JSON, or starts with "{" and ends with "}"
RecognizedText(s) ==
  \/ StartsWith(s, <<"[">>) /\ JsonParse(s).ok
  \/ StartsWith(s, <<"{">>) /\ EndsWith(s, <<"}">>)

ReturnedEmpty == ~parseCall.threw /\ parseCall.result = <<>>

\* C26 as stated: on every input that is not an array, not a string starting
\* with "[" that holds valid JSON and not a string starting with "{" and
\* ending with "}", parseIdPath and parseNamePath return the empty sequence
\* and do not throw
C26_UnrecognizedIsEmpty ==
  (/\ parseCall.done
   /\ parseCall.fn # "none"
   /\ parseCall.value.kind # "array"
   /\ ~(parseCall.value.kind = "string" /\ RecognizedText(parseCall.value.s)))
    => ReturnedEmpty

\* C26 amended: the same, the string being taken without its surrounding
\* white space: on every input that is not an array and not a string whose
\* trimmed text starts with "[" and holds valid JSON or starts with "{" and
\* ends with "}", both parsers return the empty sequence and do not throw
C26_UnrecognizedTrimmedIsEmpty ==
  (/\ parseCall.done
   /\ parseCall.fn # "none"
   /\ parseCall.value.kind # "array"
   /\ ~(parseCall.value.kind = "string" /\ RecognizedText(Trim(parseCall.value.s))))
    => ReturnedEmpty

\* a parser has returned the empty sequence for a text that opens an array
\* and is not valid JSON
C26_Witness ==
  /\ ParsedString
  /\ ReturnedEmpty
  /\ StartsWith(Trim(parseCall.value.s), <<"[">>)
  /\ Len(Trim(parseCall.value.s)) > 1
  /\ ~JsonParse(Trim(parseCall.value.s)).ok

\* the digits of the tokens of a brace-delimited string that hold a digit
DigitTokens(s) ==
  LET ts == BraceTokens(s)
  IN SelectSeq([i \in 1..Len(ts) |-> DigitsOnly(ts[i])], LAMBDA t : t # <<>>)

\* the reference rule over digit tokens ds from index i: append the token to
\* the buffer; emit the buffer when it holds 5 digits, when appending the
\* next token would make it exceed 5 digits, or when no token remains
RECURSIVE ReferenceGroups(_, _, _, _)
ReferenceGroups(ds, i, buf, out) ==
  IF i > Len(ds) THEN (IF buf # <<>> THEN Append(out, buf) ELSE out)
  ELSE
    LET b == buf \o ds[i] IN
    IF Len(b) = 5 \/ i = Len(ds) \/ Len(b) + Len(ds[i + 1]) > 5
      THEN ReferenceGroups(ds, i + 1, <<>>, Append(out, b))
      ELSE ReferenceGroups(ds, i + 1, b, out)

RECURSIVE Concat(_, _)
Concat(qs, i) == IF i > Len(qs) THEN <<>> ELSE qs[i] \o Concat(qs, i + 1)

\* parseIdPath has returned from a call on a brace-delimited string
ParsedBraceIds ==
  /\ ParsedString
  /\ parseCall.fn = "parseIdPath"
  /\ StartsWith(Trim(parseCall.value.s), <<"{">>)
  /\ EndsWith(Trim(parseCall.value.s), <<"}">>)

\* C27: for a brace-delimited id string parseIdPath returns exactly the ids
\* the reference rule emits over the non-empty digit tokens in order, and
\* the digit groups it emits, concatenated, are the tokens' digits
\* concatenated
C27_ReferenceRule ==
  ParsedBraceIds =>
    LET s == Trim(parseCall.value.s)
        ds == DigitTokens(s)
    IN /\ parseCall.result = GroupIds(ReferenceGroups(ds, 1, <<>>, <<>>))
       /\ Concat(BraceGroups(s), 1) = Concat(ds, 1)

====
